---- MODULE Spec2Model ----
(***************************************************************************)
(* A model of the swagger-rs support crate: the path-prefix composite      *)
(* router (composites.rs), the typed context list (context.rs), the        *)
(* X-Span-ID helper (header.rs) and the context-aware middleware adapters  *)
(* (add_context.rs, drop_context.rs, auth.rs), and the OneOfN / AnyOfN     *)
(* types (one_any_of.rs, one_of.rs), the base64 ByteArray                  *)
(* (base64_format.rs) and the form-style codec (serde/ser.rs, serde/de.rs).*)
(*                                                                         *)
(* Text (paths, URIs) is a sequence of one-character strings; header       *)
(* values are sequences of bytes.                                          *)
(***************************************************************************)
EXTENDS Integers, Sequences, FiniteSets, TLC

\* ------------------------------------------------------------------------
\* Bounds of the model
\* ------------------------------------------------------------------------
MaxEntries == 2
MaxCtxLen == 3
MaxHeaders == 2
MaxUuids == 2
MaxVariants == 3
MaxBytes == 3
MaxItems == 2
MaxParts == 2

\* ------------------------------------------------------------------------
\* Generic helpers
\* ------------------------------------------------------------------------
\* str::starts_with
StartsWith(s, p) == Len(p) <= Len(s) /\ SubSeq(s, 1, Len(p)) = p

\* ------------------------------------------------------------------------
\* Inputs of the composite router
\* ------------------------------------------------------------------------
\* origin-form request targets: a path, then optionally "?" and a query
Uris ==
  { <<"/">>, <<"/", "a">>, <<"/", "a", "b">>, <<"/", "a", "b", "/", "x">>,
    <<"/", "z", "z", "z">>, <<"/", "?", "a">>, <<"/", "a", "?", "b">> }

Bodies == {"", "payload"}

Requests == [uri : Uris, body : Bodies]

\* the base paths a router is registered with
BasePaths ==
  { <<>>, <<"/">>, <<"/", "a">>, <<"/", "a", "b">>, <<"/", "?">> }

\* Uri::path(): the request target up to, and without, the first "?"
QueryStart(uri) ==
  IF \E i \in 1..Len(uri) : uri[i] = "?"
  THEN CHOOSE i \in 1..Len(uri) :
         uri[i] = "?" /\ \A j \in 1..(i - 1) : uri[j] # "?"
  ELSE Len(uri) + 1

UriPath(uri) == SubSeq(uri, 1, QueryStart(uri) - 1)

\* ------------------------------------------------------------------------
\* Responses and results
\* ------------------------------------------------------------------------
NOT_FOUND == 404

DefaultBody == ""

Response(status, body) == [status |-> status, body |-> body]

Ok(v) == [ok |-> TRUE, value |-> v]

Err(e) == [ok |-> FALSE, error |-> e]

NoResult == [ok |-> FALSE, error |-> "none"]

\* a plausible slip: the fallback response carries the default status
not_found_status_ok == Response(200, DefaultBody)

\* NotFound::not_found for B: Default
not_found == Response(NOT_FOUND, DefaultBody)

\* what a registered service's future may resolve to
ServiceResults ==
  { Ok(Response(200, "data")), Ok(Response(NOT_FOUND, DefaultBody)),
    Err("inner error") }

\* ------------------------------------------------------------------------
\* State
\* ------------------------------------------------------------------------
VARIABLES
  services,     \* CompositeService.0: the (base path, service) pairs
  op,           \* the last operation on the CompositeService
  req,          \* the request of the last call
  called,       \* the registered services the last call invoked, with the request passed
  fut,          \* the future the last call returned
  innerResult,  \* what the invoked service's own future resolved to
  polled,       \* the services the last poll_ready polled, in order
  pollResult,   \* what the last poll_ready returned
  pollOuts,     \* what each service's poll_ready had to return in that poll
  makeServices, \* CompositeMakeService.0: the (base path, factory) pairs
  makeOp,       \* the last operation on the CompositeMakeService
  target,       \* the target of the last CompositeMakeService::call
  factoryCalls, \* the factory invocations of the last call, in order
  joinAll,      \* the factory futures join_all holds, in registration order
  completion,   \* the positions of the factory futures in the order they resolved
  makeFut,      \* the future the last CompositeMakeService::call returned
  makePolled,   \* the factories the last poll_ready polled, in order
  makePollResult, \* what the last poll_ready of the CompositeMakeService returned
  makePollOuts, \* what each factory's poll_ready had to return in that poll
  ctx,          \* a context list: its nodes, the head (outermost) first
  ctxOp,        \* the last operation on the context list
  ctxBefore,    \* the list the last operation was applied to
  ctxArg,       \* the node pushed, set or popped by the last operation
  ctxListed,    \* the values listed in the last make_context!
  hdrReq,       \* the headers of the last request given to get_or_generate
  spanOp,       \* the last operation of the X-Span-ID helper
  spanId,       \* the XSpanIdString the last get_or_generate returned
  spanGenerated,\* whether the last get_or_generate generated a UUID
  drawn,        \* the UUIDs Uuid::new_v4() has drawn so far
  drawnBefore,  \* the UUIDs drawn before the last get_or_generate
  defaultCtx,   \* C::default() of the AddContextService's context type C
  makerSubject, \* MakeAllowAllAuthenticator.subject
  authSubject,  \* AllowAllAuthenticator.subject, once one is made
  mwOp,         \* the last operation on a middleware adapter
  mwIn,         \* the request the adapter was last called with
  mwSeen,       \* the requests the wrapped service received in that call
  mwSpan,       \* what get_or_generate returned to the adapter in that call
  mwFut,        \* the future the adapter returned
  mwInnerResult,\* what the wrapped service's own future resolved to
  uTypes,       \* the type parameters of a OneOfN / AnyOfN, in declared order
  uOp,          \* the last operation on the OneOfN / AnyOfN
  uIn,          \* its input: the captured value, or the value serialized
  uOut,         \* its output
  bBytes,       \* the ByteArray last encoded, while its text is the one held
  bText,        \* the base64 text held
  bOp,          \* the last operation on a ByteArray or a text
  bOut,         \* what the last decoding returned
  fValue,       \* the value last given to the form-style to_string
  fText,        \* the text to_string wrote
  fOp,          \* the last operation of the form-style codec
  fOut,         \* what from_str returned for that text
  ihvType,      \* the T of the last IntoHeaderValue::<T>::from(hdr_value)
  ihvIn,        \* the HeaderValue converted
  ihvOut,       \* what the conversion did: the value returned, or a panic
  mpIn,         \* the multipart document read: its line terminator and parts
  mpAlways,     \* always_use_files of the last read_multipart_body
  mpStream,     \* the bytes of the stream read
  mpOp,         \* the last operation of the multipart reader
  mpOut         \* what the last read_multipart_body returned

serviceVars ==
  <<services, op, req, called, fut, innerResult, polled, pollResult, pollOuts>>

makeVars ==
  <<makeServices, makeOp, target, factoryCalls, joinAll, completion, makeFut,
    makePolled, makePollResult, makePollOuts>>

ctxVars == <<ctx, ctxOp, ctxBefore, ctxArg, ctxListed>>

headerVars == <<hdrReq, spanOp, spanId, spanGenerated, drawn, drawnBefore>>

mwVars ==
  <<defaultCtx, makerSubject, authSubject, mwOp, mwIn, mwSeen, mwSpan, mwFut,
    mwInnerResult>>

unionVars == <<uTypes, uOp, uIn, uOut>>

base64Vars == <<bBytes, bText, bOp, bOut>>

formVars == <<fValue, fText, fOp, fOut>>

ihvVars == <<ihvType, ihvIn, ihvOut>>

mpVars == <<mpIn, mpAlways, mpStream, mpOp, mpOut>>

vars ==
  <<serviceVars, makeVars, ctxVars, headerVars, mwVars, unionVars, base64Vars,
    formVars,
    ihvVars,
    mpVars>>

\* what each specification leaves alone
notServiceVars == <<makeVars, ctxVars, headerVars, mwVars, unionVars,
    base64Vars, formVars,
    ihvVars,
    mpVars>>

notMakeVars == <<serviceVars, ctxVars, headerVars, mwVars, unionVars,
    base64Vars, formVars,
    ihvVars,
    mpVars>>

notCtxVars == <<serviceVars, makeVars, headerVars, mwVars, unionVars,
    base64Vars, formVars,
    ihvVars,
    mpVars>>

notHeaderVars == <<serviceVars, makeVars, ctxVars, mwVars, unionVars,
    base64Vars, formVars,
    ihvVars,
    mpVars>>

\* the middleware adapters leave these alone; AddContextService calls
\* get_or_generate, which may draw a UUID
notMwVars ==
  <<serviceVars, makeVars, ctxVars, hdrReq, spanOp, spanId, spanGenerated, unionVars,
    base64Vars, formVars,
    ihvVars,
    mpVars>>

notBase64Vars ==
  <<serviceVars, makeVars, ctxVars, headerVars, mwVars, unionVars, formVars,
    ihvVars,
    mpVars>>

notFormVars ==
  <<serviceVars, makeVars, ctxVars, headerVars, mwVars, unionVars, base64Vars,
    ihvVars,
    mpVars>>

notUnionVars == <<serviceVars, makeVars, ctxVars, headerVars, mwVars,
    base64Vars, formVars,
    ihvVars,
    mpVars>>

notIhvVars == <<serviceVars, makeVars, ctxVars, headerVars, mwVars, unionVars,
    base64Vars, formVars,
    mpVars>>

notMpVars == <<serviceVars, makeVars, ctxVars, headerVars, mwVars, unionVars,
    base64Vars, formVars, ihvVars>>

NoRequest == [uri |-> <<>>, body |-> "none"]

NoFuture == [state |-> "none", inner |-> 0, value |-> NoResult]

\* ------------------------------------------------------------------------
\* CompositeService
\* ------------------------------------------------------------------------
\* a plausible slip: the most specific (longest) matching base path wins
LongestMatch(table, path) ==
  IF \E i \in 1..Len(table) : StartsWith(path, table[i].path)
  THEN CHOOSE i \in 1..Len(table) :
         /\ StartsWith(path, table[i].path)
         /\ \A j \in 1..Len(table) :
              StartsWith(path, table[j].path) =>
                \/ Len(table[j].path) < Len(table[i].path)
                \/ (Len(table[j].path) = Len(table[i].path) /\ i <= j)
  ELSE 0

\* index of the first entry whose base path is a prefix of path, 0 if none
FirstMatch(table, path) ==
  IF \E i \in 1..Len(table) : StartsWith(path, table[i].path)
  THEN CHOOSE i \in 1..Len(table) :
         /\ StartsWith(path, table[i].path)
         /\ \A j \in 1..(i - 1) : ~StartsWith(path, table[j].path)
  ELSE 0

\* a plausible slip: the matched entry is taken out of the table when called
CallConsumingEntry(table, r) ==
  LET i == FirstMatch(table, UriPath(r.uri)) IN
  IF i # 0
  THEN [called |-> <<[svc |-> table[i].svc, req |-> r]>>,
        fut |-> [state |-> "pending", inner |-> table[i].svc, value |-> NoResult],
        table |-> SubSeq(table, 1, i - 1) \o SubSeq(table, i + 1, Len(table))]
  ELSE [called |-> <<>>,
        fut |-> [state |-> "ready", inner |-> 0, value |-> Ok(not_found)],
        table |-> table]

\* a plausible slip: the matched base path is stripped from the URI before
\* the request is passed on (as mounting routers do)
CallStrippingBasePath(table, r) ==
  LET i == FirstMatch(table, UriPath(r.uri)) IN
  IF i # 0
  THEN [called |-> <<[svc |-> table[i].svc,
                      req |-> [r EXCEPT !.uri =
                                 SubSeq(r.uri, Len(table[i].path) + 1, Len(r.uri))]]>>,
        fut |-> [state |-> "pending", inner |-> table[i].svc, value |-> NoResult],
        table |-> table]
  ELSE [called |-> <<>>,
        fut |-> [state |-> "ready", inner |-> 0, value |-> Ok(not_found)],
        table |-> table]

\* CompositeService::call(&mut self, req): the services it invokes, the
\* future it returns and the table it leaves
CompositeService_call(table, r) ==
  LET i == FirstMatch(table, UriPath(r.uri)) IN
  IF i # 0
  THEN [called |-> <<[svc |-> table[i].svc, req |-> r]>>,
        fut |-> [state |-> "pending", inner |-> table[i].svc, value |-> NoResult],
        table |-> table]
  ELSE [called |-> <<>>,
        fut |-> [state |-> "ready", inner |-> 0, value |-> Ok(not_found)],
        table |-> table]

\* a plausible slip: an error of the matched service falls back to not found
ErrorToNotFound(r) == IF r.ok THEN r ELSE Ok(not_found)

\* the returned future is the invoked service's own future
ForwardResult(r) == r

PollOutcomes == {"ready", "pending", "error"}

Pending == [ready |-> FALSE, result |-> NoResult]

Ready(r) == [ready |-> TRUE, result |-> r]

\* a plausible slip: every service is polled, and the first outcome that is
\* not Ready(Ok) is returned afterwards
RECURSIVE PollLoopPollingAll(_, _, _)
PollLoopPollingAll(table, outs, i) ==
  IF i > Len(table)
  THEN [polled |-> <<>>, result |-> Ready(Ok("unit"))]
  ELSE LET rest == PollLoopPollingAll(table, outs, i + 1) IN
       [polled |-> <<table[i].svc>> \o rest.polled,
        result |-> IF outs[i] = "ready"
                   THEN rest.result
                   ELSE IF outs[i] = "pending"
                        THEN Pending
                        ELSE Ready(Err(table[i].svc))]

\* the loop of poll_ready from entry i on; outs[k] is what service k's
\* poll_ready returns when polled
RECURSIVE PollLoop(_, _, _)
PollLoop(table, outs, i) ==
  IF i > Len(table)
  THEN [polled |-> <<>>, result |-> Ready(Ok("unit"))]
  ELSE IF outs[i] = "ready"
       THEN LET rest == PollLoop(table, outs, i + 1) IN
            [polled |-> <<table[i].svc>> \o rest.polled, result |-> rest.result]
       ELSE [polled |-> <<table[i].svc>>,
             result |-> IF outs[i] = "pending"
                        THEN Pending
                        ELSE Ready(Err(table[i].svc))]

CompositeService_poll_ready(table, outs) == PollLoop(table, outs, 1)

\* every table CompositeMakeService::call can produce
ServiceTables ==
  UNION { {[i \in 1..n |-> [path |-> ps[i], svc |-> i]] : ps \in [1..n -> BasePaths]}
          : n \in 0..MaxEntries }

ServiceIdle ==
  /\ services = <<>>
  /\ op = "new"
  /\ req = NoRequest
  /\ called = <<>>
  /\ fut = NoFuture
  /\ innerResult = NoResult
  /\ polled = <<>>
  /\ pollResult = Pending
  /\ pollOuts = <<>>

ServiceInit ==
  /\ services \in ServiceTables
  /\ op = "new"
  /\ req = NoRequest
  /\ called = <<>>
  /\ fut = NoFuture
  /\ innerResult = NoResult
  /\ polled = <<>>
  /\ pollResult = Pending
  /\ pollOuts = <<>>

Call ==
  /\ fut.state # "pending"
  /\ \E r \in Requests :
       LET c == CompositeService_call(services, r) IN
       /\ req' = r
       /\ called' = c.called
       /\ fut' = c.fut
       /\ services' = c.table
  /\ op' = "call"
  /\ innerResult' = NoResult
  /\ polled' = <<>>
  /\ pollResult' = Pending
  /\ pollOuts' = <<>>
  /\ UNCHANGED notServiceVars

\* the invoked service's future resolves
Resolve ==
  /\ fut.state = "pending"
  /\ \E r \in ServiceResults :
       /\ innerResult' = r
       /\ fut' = [fut EXCEPT !.state = "ready", !.value = ForwardResult(r)]
  /\ op' = "resolve"
  /\ UNCHANGED <<services, req, called, polled, pollResult, pollOuts>>
  /\ UNCHANGED notServiceVars

PollReady ==
  /\ fut.state # "pending"
  /\ \E outs \in [1..Len(services) -> PollOutcomes] :
       LET p == CompositeService_poll_ready(services, outs) IN
       /\ polled' = p.polled
       /\ pollResult' = p.result
       /\ pollOuts' = outs
  /\ op' = "poll_ready"
  /\ req' = NoRequest
  /\ called' = <<>>
  /\ fut' = NoFuture
  /\ innerResult' = NoResult
  /\ UNCHANGED services
  /\ UNCHANGED notServiceVars

RemoveAt(s, i) == SubSeq(s, 1, i - 1) \o SubSeq(s, i + 1, Len(s))

SwapAt(s, i, j) == [s EXCEPT ![i] = s[j], ![j] = s[i]]

\* DerefMut for CompositeService hands out &mut Vec: Vec::remove and Vec::swap
DerefMutRemove ==
  /\ fut.state # "pending"
  /\ \E i \in 1..Len(services) : services' = RemoveAt(services, i)
  /\ op' = "deref_mut"
  /\ req' = NoRequest
  /\ called' = <<>>
  /\ fut' = NoFuture
  /\ innerResult' = NoResult
  /\ polled' = <<>>
  /\ pollResult' = Pending
  /\ pollOuts' = <<>>
  /\ UNCHANGED notServiceVars

DerefMutSwap ==
  /\ fut.state # "pending"
  /\ \E i \in 1..Len(services) : \E j \in (i + 1)..Len(services) :
       services' = SwapAt(services, i, j)
  /\ op' = "deref_mut"
  /\ req' = NoRequest
  /\ called' = <<>>
  /\ fut' = NoFuture
  /\ innerResult' = NoResult
  /\ polled' = <<>>
  /\ pollResult' = Pending
  /\ pollOuts' = <<>>
  /\ UNCHANGED notServiceVars

\* ------------------------------------------------------------------------
\* CompositeMakeService
\* ------------------------------------------------------------------------
Targets == {"t1", "t2"}

\* the service a factory makes for a target
MadeService(factory, t) == [factory |-> factory, target |-> t]

\* what a factory's future may resolve to for a target
FactoryResults(factory, t) ==
  { Ok(MadeService(factory, t)), Err(<<"make error", factory>>) }

\* .map(move |res| res.map(move |service| (path, service)))
PairWithPath(path, res) ==
  IF res.ok THEN Ok([path |-> path, svc |-> res.value]) ELSE res

\* a plausible slip: the first entry's factory is never invoked
CallSkippingFirst(table, t) ==
  [calls |-> [i \in 1..(Len(table) - 1) |->
                [factory |-> table[i + 1].factory, target |-> t]],
   futures |-> [i \in 1..(Len(table) - 1) |->
                [path |-> table[i + 1].path, factory |-> table[i + 1].factory,
                 done |-> FALSE, output |-> NoResult]]]

\* CompositeMakeService::call: every factory is called with a clone of the
\* target, and join_all holds the futures in registration order
CompositeMakeService_call(table, t) ==
  [calls |-> [i \in 1..Len(table) |->
                [factory |-> table[i].factory, target |-> t]],
   futures |-> [i \in 1..Len(table) |->
                [path |-> table[i].path, factory |-> table[i].factory,
                 done |-> FALSE, output |-> NoResult]]]

\* a plausible slip: the services that were made are kept and the errors dropped
RECURSIVE CollectSuccessful(_)
CollectSuccessful(outputs) ==
  IF outputs = <<>>
  THEN Ok(<<>>)
  ELSE LET rest == CollectSuccessful(Tail(outputs)) IN
       IF Head(outputs).ok
       THEN Ok(<<Head(outputs).value>> \o rest.value)
       ELSE rest

\* a plausible slip: the collected entries come out in reverse order
RECURSIVE CollectReversed(_)
CollectReversed(outputs) ==
  IF outputs = <<>>
  THEN Ok(<<>>)
  ELSE IF ~Head(outputs).ok
       THEN Head(outputs)
       ELSE LET rest == CollectReversed(Tail(outputs)) IN
            IF rest.ok THEN Ok(rest.value \o <<Head(outputs).value>>) ELSE rest

\* results.into_iter().collect::<Result<Vec<_>, MakeError>>(): the values in
\* order, or the first error in order
RECURSIVE Collect(_)
Collect(outputs) ==
  IF outputs = <<>>
  THEN Ok(<<>>)
  ELSE IF ~Head(outputs).ok
       THEN Head(outputs)
       ELSE LET rest == Collect(Tail(outputs)) IN
            IF rest.ok THEN Ok(<<Head(outputs).value>> \o rest.value) ELSE rest

\* Ok(CompositeService(services?))
JoinAllOutput(futures) ==
  Collect([i \in 1..Len(futures) |-> futures[i].output])

\* a plausible slip: the joined future is ready as soon as one factory
\* future has resolved (select, not join)
SomeDone(futures) ==
  futures = <<>> \/ \E i \in 1..Len(futures) : futures[i].done

AllDone(futures) == \A i \in 1..Len(futures) : futures[i].done

\* CompositeMakeService::new()
MakeInit ==
  /\ makeServices = <<>>
  /\ makeOp = "new"
  /\ target = "none"
  /\ factoryCalls = <<>>
  /\ joinAll = <<>>
  /\ completion = <<>>
  /\ makeFut = NoFuture
  /\ makePolled = <<>>
  /\ makePollResult = Pending
  /\ makePollOuts = <<>>

\* composite_make_service.push((base_path, make_service)) through DerefMut;
\* the factory registered k-th is factory k
MakePush ==
  /\ makeFut.state # "pending"
  /\ Len(makeServices) < MaxEntries
  /\ \E path \in BasePaths :
       makeServices' =
         Append(makeServices, [path |-> path, factory |-> Len(makeServices) + 1])
  /\ makeOp' = "push"
  /\ target' = "none"
  /\ factoryCalls' = <<>>
  /\ joinAll' = <<>>
  /\ completion' = <<>>
  /\ makeFut' = NoFuture
  /\ makePolled' = <<>>
  /\ makePollResult' = Pending
  /\ makePollOuts' = <<>>
  /\ UNCHANGED notMakeVars

MakeCall ==
  /\ makeFut.state # "pending"
  /\ \E t \in Targets :
       LET c == CompositeMakeService_call(makeServices, t) IN
       /\ target' = t
       /\ factoryCalls' = c.calls
       /\ joinAll' = c.futures
  /\ makeOp' = "call"
  /\ completion' = <<>>
  /\ makeFut' = [state |-> "pending", inner |-> 0, value |-> NoResult]
  /\ makePolled' = <<>>
  /\ makePollResult' = Pending
  /\ makePollOuts' = <<>>
  /\ UNCHANGED makeServices
  /\ UNCHANGED notMakeVars

\* one of the factory futures resolves; they resolve in any order
FactoryResolve ==
  /\ makeFut.state = "pending"
  /\ \E i \in 1..Len(joinAll) :
       /\ ~joinAll[i].done
       /\ \E res \in FactoryResults(joinAll[i].factory, target) :
            joinAll' = [joinAll EXCEPT
                          ![i].done = TRUE,
                          ![i].output = PairWithPath(joinAll[i].path, res)]
       /\ completion' = Append(completion, i)
  /\ makeOp' = "factory_resolve"
  /\ UNCHANGED <<makeServices, target, factoryCalls, makeFut, makePolled,
                 makePollResult, makePollOuts>>
  /\ UNCHANGED notMakeVars

\* the loop of CompositeMakeService::poll_ready from entry i on; outs[k] is
\* what factory k's poll_ready returns when polled
RECURSIVE MakePollLoop(_, _, _)
MakePollLoop(table, outs, i) ==
  IF i > Len(table)
  THEN [polled |-> <<>>, result |-> Ready(Ok("unit"))]
  ELSE IF outs[i] = "ready"
       THEN LET rest == MakePollLoop(table, outs, i + 1) IN
            [polled |-> <<table[i].factory>> \o rest.polled, result |-> rest.result]
       ELSE [polled |-> <<table[i].factory>>,
             result |-> IF outs[i] = "pending"
                        THEN Pending
                        ELSE Ready(Err(table[i].factory))]

CompositeMakeService_poll_ready(table, outs) == MakePollLoop(table, outs, 1)

MakePollReady ==
  /\ makeFut.state # "pending"
  /\ \E outs \in [1..Len(makeServices) -> PollOutcomes] :
       LET p == CompositeMakeService_poll_ready(makeServices, outs) IN
       /\ makePolled' = p.polled
       /\ makePollResult' = p.result
       /\ makePollOuts' = outs
  /\ makeOp' = "poll_ready"
  /\ target' = "none"
  /\ factoryCalls' = <<>>
  /\ joinAll' = <<>>
  /\ completion' = <<>>
  /\ makeFut' = NoFuture
  /\ UNCHANGED makeServices
  /\ UNCHANGED notMakeVars

\* the CompositeMakeService a CompositeService was made by: the same base
\* paths in the same order, the factory registered k-th being factory k
MakerOf(table) ==
  [i \in 1..Len(table) |-> [path |-> table[i].path, factory |-> i]]

\* poll_ready never reads a base path: two of them are enough for the
\* tables it is run on
PollTable ==
  \A i \in 1..Len(services) : services[i].path \in {<<"/">>, <<"/", "a">>}

\* a CompositeMakeService after the pushes that registered its factories
MakeBuilt ==
  /\ makeServices = MakerOf(services)
  /\ makeOp = "push"
  /\ target = "none"
  /\ factoryCalls = <<>>
  /\ joinAll = <<>>
  /\ completion = <<>>
  /\ makeFut = NoFuture
  /\ makePolled = <<>>
  /\ makePollResult = Pending
  /\ makePollOuts = <<>>

\* join_all is ready once every future it holds has resolved
JoinAllReady ==
  /\ makeFut.state = "pending"
  /\ AllDone(joinAll)
  /\ makeFut' = [makeFut EXCEPT !.state = "ready", !.value = JoinAllOutput(joinAll)]
  /\ makeOp' = "ready"
  /\ UNCHANGED <<makeServices, target, factoryCalls, joinAll, completion,
                 makePolled, makePollResult, makePollOuts>>
  /\ UNCHANGED notMakeVars

\* ------------------------------------------------------------------------
\* Context list (new_context_type!)
\* ------------------------------------------------------------------------
\* the member types the default context type is declared with
Types == {"XSpanIdString", "Option<AuthData>", "Option<Authorization>"}

Values == {"v1", "v2"}

Node(T, v) == [type |-> T, value |-> v]

Nodes == [type : Types, value : Values]

NoNode == [type |-> "none", value |-> "none"]

\* $empty_context_name::default()
EmptyContext == <<>>

\* the trait bound Has<T> / Pop<T>: some node of the list has type T
Has(list, T) == \E i \in 1..Len(list) : list[i].type = T

\* a plausible slip: a push of a type the list already holds overwrites it
RECURSIVE SetOutermost(_, _, _)
SetOutermost(list, T, v) ==
  IF Head(list).type = T
  THEN <<Node(T, v)>> \o Tail(list)
  ELSE <<Head(list)>> \o SetOutermost(Tail(list), T, v)

PushOverwriting(list, T, v) ==
  IF Has(list, T) THEN SetOutermost(list, T, v) ELSE <<Node(T, v)>> \o list

\* Push::push: $context_name{head: item, tail: self}
Push_push(list, T, v) == <<Node(T, v)>> \o list

\* Has::get: the head when it has type T, else forwarded to the tail
RECURSIVE Has_get(_, _)
Has_get(list, T) ==
  IF Head(list).type = T THEN Head(list).value ELSE Has_get(Tail(list), T)

\* a plausible slip: set writes every node of type T, not the outermost only
SetEveryNode(list, T, v) ==
  [i \in 1..Len(list) |-> IF list[i].type = T THEN Node(T, v) ELSE list[i]]

\* Has::set: the head when it has type T, else forwarded to the tail
RECURSIVE Has_set(_, _, _)
Has_set(list, T, v) ==
  IF Head(list).type = T
  THEN <<Node(T, v)>> \o Tail(list)
  ELSE <<Head(list)>> \o Has_set(Tail(list), T, v)

\* a plausible slip: the forwarding pop returns the tail's remainder and
\* loses its own head
RECURSIVE PopDroppingHead(_, _)
PopDroppingHead(list, T) ==
  IF Head(list).type = T
  THEN [value |-> Head(list).value, rest |-> Tail(list)]
  ELSE PopDroppingHead(Tail(list), T)

\* a plausible slip: the forwarding pop puts its head back behind the tail's
\* remainder, not in front of it
RECURSIVE PopAppendingHead(_, _)
PopAppendingHead(list, T) ==
  IF Head(list).type = T
  THEN [value |-> Head(list).value, rest |-> Tail(list)]
  ELSE LET r == PopAppendingHead(Tail(list), T) IN
       [value |-> r.value, rest |-> r.rest \o <<Head(list)>>]

\* Pop::pop: (self.head, self.tail) when the head has type T, else the tail
\* is popped and the head put back on its remainder
RECURSIVE Pop_pop(_, _)
Pop_pop(list, T) ==
  IF Head(list).type = T
  THEN [value |-> Head(list).value, rest |-> Tail(list)]
  ELSE LET r == Pop_pop(Tail(list), T) IN
       [value |-> r.value, rest |-> <<Head(list)>> \o r.rest]

\* a plausible slip: the values are pushed in the order listed, so the last
\* listed value ends up outermost
RECURSIVE MakeContextListedOrder(_)
MakeContextListedOrder(values) ==
  IF values = <<>>
  THEN EmptyContext
  ELSE LET n == Len(values) IN
       Push_push(MakeContextListedOrder(SubSeq(values, 1, n - 1)),
                 values[n].type, values[n].value)

\* make_context!(Ctx, Empty, value, values...):
\*   make_context!(Ctx, Empty, values...).push(value)
RECURSIVE make_context(_)
make_context(values) ==
  IF values = <<>>
  THEN EmptyContext
  ELSE Push_push(make_context(Tail(values)), Head(values).type, Head(values).value)

NodeLists == UNION {[1..k -> Nodes] : k \in 0..MaxCtxLen}

CtxInit ==
  /\ ctx = EmptyContext
  /\ ctxOp = "default"
  /\ ctxBefore = EmptyContext
  /\ ctxArg = NoNode
  /\ ctxListed = <<>>

CtxPush ==
  /\ Len(ctx) < MaxCtxLen
  /\ \E n \in Nodes :
       /\ ctx' = Push_push(ctx, n.type, n.value)
       /\ ctxArg' = n
  /\ ctxOp' = "push"
  /\ ctxBefore' = ctx
  /\ ctxListed' = <<>>
  /\ UNCHANGED notCtxVars

CtxPop ==
  /\ \E T \in Types :
       /\ Has(ctx, T)
       /\ ctx' = Pop_pop(ctx, T).rest
       /\ ctxArg' = Node(T, Pop_pop(ctx, T).value)
  /\ ctxOp' = "pop"
  /\ ctxBefore' = ctx
  /\ ctxListed' = <<>>
  /\ UNCHANGED notCtxVars

CtxSet ==
  /\ \E n \in Nodes :
       /\ Has(ctx, n.type)
       /\ ctx' = Has_set(ctx, n.type, n.value)
       /\ ctxArg' = n
  /\ ctxOp' = "set"
  /\ ctxBefore' = ctx
  /\ ctxListed' = <<>>
  /\ UNCHANGED notCtxVars

\* let (value, rest) = context.pop(); rest.push(value)
CtxPopThenPush ==
  /\ \E T \in Types :
       /\ Has(ctx, T)
       /\ LET p == Pop_pop(ctx, T) IN
          /\ ctx' = Push_push(p.rest, T, p.value)
          /\ ctxArg' = Node(T, p.value)
  /\ ctxOp' = "pop_push"
  /\ ctxBefore' = ctx
  /\ ctxListed' = <<>>
  /\ UNCHANGED notCtxVars

\* a new list is built with make_context! when none is held
CtxMakeContext ==
  /\ ctx = EmptyContext
  /\ \E values \in NodeLists :
       /\ ctx' = make_context(values)
       /\ ctxListed' = values
  /\ ctxOp' = "make_context"
  /\ ctxBefore' = EmptyContext
  /\ ctxArg' = NoNode
  /\ UNCHANGED notCtxVars

\* ------------------------------------------------------------------------
\* X-Span-ID (header.rs)
\* ------------------------------------------------------------------------
\* header names as HeaderMap holds them (case-insensitive, lower case)
X_SPAN_ID == "x-span-id"

HeaderNames == {X_SPAN_ID, "content-type"}

\* header values as bytes: "a1", "" and the two bytes of a non-ASCII character
HeaderValues == { <<97, 49>>, <<>>, <<194, 163>> }

HeaderLists ==
  UNION {[1..k -> [name : HeaderNames, value : HeaderValues]] : k \in 0..MaxHeaders}

Some(v) == [some |-> TRUE, value |-> v]

None == [some |-> FALSE]

\* HeaderMap::get: the first value held for the name
HeaderGet(headers, name) ==
  IF \E i \in 1..Len(headers) : headers[i].name = name
  THEN Some(headers[CHOOSE i \in 1..Len(headers) :
                      /\ headers[i].name = name
                      /\ \A j \in 1..(i - 1) : headers[j].name # name].value)
  ELSE None

IsVisibleAscii(b) == (b >= 32 /\ b < 127) \/ b = 9

\* a plausible slip: the bytes are taken as text whatever they are
to_str_unchecked(value) == Some(value)

\* HeaderValue::to_str().ok(): the value as text when all its bytes are
\* visible ASCII
to_str(value) ==
  IF \A i \in 1..Len(value) : IsVisibleAscii(value[i]) THEN Some(value) ELSE None

\* the values Uuid::new_v4() may draw; a version 4 UUID has 122 random bits
\* and a value is taken never to be drawn twice
Uuids == 1..MaxUuids

\* Uuid::to_string(): the text of the UUID, here the bytes of "uuid-" and a digit
UuidToString(u) == <<117, 117, 105, 100, 45, 48 + u>>

\* XSpanIdString::default()
XSpanIdString_default(u) == UuidToString(u)

\* XSpanIdString::get_or_generate(req), where u is what Uuid::new_v4() draws
\* if it is called
get_or_generate(headers, u) ==
  LET x_span_id == HeaderGet(headers, X_SPAN_ID)
      text == IF x_span_id.some THEN to_str(x_span_id.value) ELSE None
  IN IF text.some
     THEN [spanId |-> text.value, generated |-> FALSE]
     ELSE [spanId |-> XSpanIdString_default(u), generated |-> TRUE]

NoSpanId == <<0>>

SpanInit ==
  /\ hdrReq = <<>>
  /\ spanOp = "none"
  /\ spanId = NoSpanId
  /\ spanGenerated = FALSE
  /\ drawn = {}
  /\ drawnBefore = {}

GetOrGenerate ==
  /\ \E headers \in HeaderLists : \E u \in Uuids :
       LET r == get_or_generate(headers, u) IN
       /\ r.generated => u \notin drawn
       /\ hdrReq' = headers
       /\ spanId' = r.spanId
       /\ spanGenerated' = r.generated
       /\ drawn' = IF r.generated THEN drawn \cup {u} ELSE drawn
  /\ drawnBefore' = drawn
  /\ spanOp' = "get_or_generate"
  /\ UNCHANGED notHeaderVars

\* ------------------------------------------------------------------------
\* Middleware adapters (add_context.rs, drop_context.rs, auth.rs)
\* ------------------------------------------------------------------------
\* the header lists of the requests the adapters are called with
MwHeaderLists ==
  { <<>>,
    <<[name |-> X_SPAN_ID, value |-> <<97, 49>>]>>,
    <<[name |-> X_SPAN_ID, value |-> <<194, 163>>]>>,
    <<[name |-> "authorization", value |-> <<66, 97, 115, 105, 99, 32, 97>>],
      [name |-> X_SPAN_ID, value |-> <<>>]>> }

\* request heads: the request target and the headers
MwHeads == [uri : {<<"/", "a">>}, headers : MwHeaderLists]

\* hyper::Request<Body>
PlainRequests == [head : MwHeads, body : Bodies]

\* the contexts a context-bearing request may arrive with
MwContexts ==
  { EmptyContext,
    <<Node("XSpanIdString", <<97, 49>>)>>,
    <<Node("Option<Authorization>", None), Node("XSpanIdString", <<97, 49>>)>> }

\* ContextualPayload {inner, context}
ContextualPayload(inner, context) == [inner |-> inner, context |-> context]

\* Request::from_parts(head, body)
from_parts(head, body) == [head |-> head, body |-> body]

\* hyper::Request<ContextualPayload<Body, C>>
ContextualRequests ==
  {from_parts(h, ContextualPayload(b, c)) : h \in MwHeads, b \in Bodies, c \in MwContexts}

\* (Request<B>, RC)
RequestsWithContext == [request : PlainRequests, context : MwContexts]

\* the values C::default() may have: an empty context, or a context type
\* whose members are all defaulted
DefaultContexts == {EmptyContext, <<Node("Option<AuthData>", None)>>}

Subjects == {"foo", ""}

NoSubject == "no authenticator"

\* what the wrapped service's future may resolve to
MwResponse(status, headers, body) ==
  [status |-> status, headers |-> headers, body |-> body]

MwServiceResults ==
  { Ok(MwResponse(200, <<>>, "data")),
    Ok(MwResponse(200, <<[name |-> X_SPAN_ID, value |-> <<97, 49>>]>>, "data")),
    Err("inner error") }

NoMwRequest == [head |-> "none", body |-> "none"]

NoSpan == [spanId |-> NoSpanId, generated |-> FALSE]

NoMwFuture == [state |-> "none", by |-> "none", value |-> NoResult]

\* the future self.inner.call(..) returned, handed back as it is
InnerFuture(by) == [state |-> "pending", by |-> by, value |-> NoResult]

\* a plausible slip: the context of the request served before is pushed onto
AddContextCarryingOver(r, dflt, u) ==
  LET x_span_id == get_or_generate(r.head.headers, u)
      earlier == IF mwFut.by = "add_context" THEN mwSeen[1].body.context ELSE dflt
      context == Push_push(earlier, "XSpanIdString", x_span_id.spanId)
  IN [x_span_id |-> x_span_id,
      seen |-> <<from_parts(r.head, ContextualPayload(r.body, context))>>,
      fut |-> InnerFuture("add_context")]

\* AddContextService::call, where dflt is C::default() and u what
\* Uuid::new_v4() draws if get_or_generate calls it
AddContextService_call(r, dflt, u) ==
  LET x_span_id == get_or_generate(r.head.headers, u)
      context == Push_push(dflt, "XSpanIdString", x_span_id.spanId)
  IN [x_span_id |-> x_span_id,
      seen |-> <<from_parts(r.head, ContextualPayload(r.body, context))>>,
      fut |-> InnerFuture("add_context")]

\* a plausible slip: the head is forwarded with a new, empty body
DropContextEmptyBody(r) ==
  [seen |-> <<from_parts(r.head, "")>>, fut |-> InnerFuture("drop_context")]

\* DropContextService::call (hyper::service::Service)
DropContextService_call(r) ==
  LET body == r.body.inner
  IN [seen |-> <<from_parts(r.head, body)>>, fut |-> InnerFuture("drop_context")]

\* DropContextService::request (client::Service)
DropContextService_request(r) ==
  [seen |-> <<from_parts(r.head, r.body.inner)>>, fut |-> InnerFuture("drop_context")]

Authorization(subject, scopes, issuer) ==
  [subject |-> subject, scopes |-> scopes, issuer |-> issuer]

\* a plausible slip: a request without credentials is given no authorization
AllowAllOnlyWithCredentials(subject, r) ==
  LET granted == IF HeaderGet(r.request.head.headers, "authorization").some
                 THEN Some(Authorization(subject, "All", None))
                 ELSE None
      context == Push_push(r.context, "Option<Authorization>", granted)
  IN [seen |-> <<[request |-> r.request, context |-> context]>>,
      fut |-> InnerFuture("allow_all")]

\* AllowAllAuthenticator::call
AllowAllAuthenticator_call(subject, r) ==
  LET context == Push_push(r.context, "Option<Authorization>",
                           Some(Authorization(subject, "All", None)))
  IN [seen |-> <<[request |-> r.request, context |-> context]>>,
      fut |-> InnerFuture("allow_all")]

\* what the wrapped factory's future may resolve to
MwFactoryResults == {Ok("service"), Err("make error")}

\* MakeAllowAllAuthenticator::call, once the wrapped factory's future has
\* resolved to s: Ok(AllowAllAuthenticator::new(s?, subject))
MakeAllowAllAuthenticator_call(subject, s) ==
  IF s.ok THEN Ok([inner |-> s.value, subject |-> subject]) ELSE s

\* a plausible slip: the tracing id is written into the response headers
\* when the wrapped service did not set one
FutureInjectingSpanId(by, result, id) ==
  IF by = "add_context" /\ result.ok
     /\ ~HeaderGet(result.value.headers, X_SPAN_ID).some
  THEN Ok([result.value EXCEPT
             !.headers = Append(@, [name |-> X_SPAN_ID, value |-> id])])
  ELSE result

\* type Future = T::Future: the adapter's future is the wrapped service's
\* own, so it resolves to whatever that one resolves to
AdapterFuture(by, result, id) == result

MwInit ==
  /\ defaultCtx \in DefaultContexts
  /\ makerSubject \in Subjects
  /\ authSubject = NoSubject
  /\ mwOp = "new"
  /\ mwIn = NoMwRequest
  /\ mwSeen = <<>>
  /\ mwSpan = NoSpan
  /\ mwFut = NoMwFuture
  /\ mwInnerResult = NoResult

\* the state of the adapters when another component is looked at
MwIdle ==
  /\ defaultCtx = EmptyContext
  /\ makerSubject = ""
  /\ authSubject = NoSubject
  /\ mwOp = "new"
  /\ mwIn = NoMwRequest
  /\ mwSeen = <<>>
  /\ mwSpan = NoSpan
  /\ mwFut = NoMwFuture
  /\ mwInnerResult = NoResult

AddContextCall ==
  /\ mwFut.state # "pending"
  /\ \E r \in PlainRequests : \E u \in Uuids :
       LET c == AddContextService_call(r, defaultCtx, u) IN
       /\ c.x_span_id.generated => u \notin drawn
       /\ mwIn' = r
       /\ mwSeen' = c.seen
       /\ mwFut' = c.fut
       /\ mwSpan' = c.x_span_id
       /\ drawn' = IF c.x_span_id.generated THEN drawn \cup {u} ELSE drawn
  /\ drawnBefore' = drawn
  /\ mwOp' = "add_context"
  /\ mwInnerResult' = NoResult
  /\ UNCHANGED <<defaultCtx, makerSubject, authSubject>>
  /\ UNCHANGED notMwVars

DropContextCall ==
  /\ mwFut.state # "pending"
  /\ \E r \in ContextualRequests :
       LET c == DropContextService_call(r) IN
       /\ mwIn' = r
       /\ mwSeen' = c.seen
       /\ mwFut' = c.fut
  /\ mwSpan' = NoSpan
  /\ mwOp' = "drop_context"
  /\ mwInnerResult' = NoResult
  /\ UNCHANGED <<defaultCtx, makerSubject, authSubject>>
  /\ UNCHANGED <<drawn, drawnBefore, notMwVars>>

DropContextRequest ==
  /\ mwFut.state # "pending"
  /\ \E r \in ContextualRequests :
       LET c == DropContextService_request(r) IN
       /\ mwIn' = r
       /\ mwSeen' = c.seen
       /\ mwFut' = c.fut
  /\ mwSpan' = NoSpan
  /\ mwOp' = "drop_context_request"
  /\ mwInnerResult' = NoResult
  /\ UNCHANGED <<defaultCtx, makerSubject, authSubject>>
  /\ UNCHANGED <<drawn, drawnBefore, notMwVars>>

\* MakeAllowAllAuthenticator::call and the resolution of its future
MakeAllowAllCall ==
  /\ mwFut.state # "pending"
  /\ \E s \in MwFactoryResults :
       LET made == MakeAllowAllAuthenticator_call(makerSubject, s) IN
       /\ authSubject' = IF made.ok THEN made.value.subject ELSE NoSubject
       /\ mwInnerResult' = s
       /\ mwFut' = [state |-> "ready", by |-> "make_allow_all", value |-> made]
  /\ mwOp' = "make_allow_all"
  /\ mwIn' = NoMwRequest
  /\ mwSeen' = <<>>
  /\ mwSpan' = NoSpan
  /\ UNCHANGED <<defaultCtx, makerSubject>>
  /\ UNCHANGED <<drawn, drawnBefore, notMwVars>>

AllowAllCall ==
  /\ mwFut.state # "pending"
  /\ authSubject # NoSubject
  /\ \E r \in RequestsWithContext :
       LET c == AllowAllAuthenticator_call(authSubject, r) IN
       /\ mwIn' = r
       /\ mwSeen' = c.seen
       /\ mwFut' = c.fut
  /\ mwSpan' = NoSpan
  /\ mwOp' = "allow_all"
  /\ mwInnerResult' = NoResult
  /\ UNCHANGED <<defaultCtx, makerSubject, authSubject>>
  /\ UNCHANGED <<drawn, drawnBefore, notMwVars>>

\* the wrapped service's future resolves, and with it the adapter's
MwResolve ==
  /\ mwFut.state = "pending"
  /\ \E result \in MwServiceResults :
       /\ mwInnerResult' = result
       /\ mwFut' = [mwFut EXCEPT !.state = "ready",
                                 !.value = AdapterFuture(mwFut.by, result, mwSpan.spanId)]
  /\ mwOp' = "resolve"
  /\ UNCHANGED <<defaultCtx, makerSubject, authSubject, mwIn, mwSeen, mwSpan>>
  /\ UNCHANGED <<drawn, drawnBefore, notMwVars>>

\* ------------------------------------------------------------------------
\* OneOfN / AnyOfN (one_any_of.rs, one_of.rs)
\* ------------------------------------------------------------------------
\* captured values; a number is its decimal digits, so that values beyond
\* 32 bits can be told from those within
Number(digits) == [kind |-> "number", digits |-> digits, s |-> <<>>, b |-> FALSE]

String(s) == [kind |-> "string", digits |-> <<>>, s |-> s, b |-> FALSE]

Bool(b) == [kind |-> "bool", digits |-> <<>>, s |-> <<>>, b |-> b]

\* 7, 123, 300, 5000000000, "hi", "" and true
CapturedValues ==
  { Number(<<7>>), Number(<<1, 2, 3>>), Number(<<3, 0, 0>>),
    Number(<<5, 0, 0, 0, 0, 0, 0, 0, 0, 0>>),
    String(<<"h", "i">>), String(<<>>), Bool(TRUE) }

VariantTypes == {"u8", "u32", "u64", "String", "bool"}

\* u8::MAX, u32::MAX and u64::MAX in decimal digits
MaxOf(T) ==
  CASE T = "u8" -> <<2, 5, 5>>
    [] T = "u32" -> <<4, 2, 9, 4, 9, 6, 7, 2, 9, 5>>
    [] T = "u64" -> <<1, 8, 4, 4, 6, 7, 4, 4, 0, 7, 3, 7, 0, 9, 5, 5, 1, 6, 1, 5>>

\* a <= b for decimal digit sequences without leading zeros
DigitsLeq(a, b) ==
  \/ Len(a) < Len(b)
  \/ /\ Len(a) = Len(b)
     /\ \/ a = b
        \/ \E i \in 1..Len(a) :
             /\ a[i] < b[i]
             /\ \A j \in 1..(i - 1) : a[j] = b[j]

\* the digits of a number without its leading zeros
RECURSIVE WithoutLeadingZeros(_)
WithoutLeadingZeros(digits) ==
  IF Len(digits) > 1 /\ Head(digits) = 0
  THEN WithoutLeadingZeros(Tail(digits))
  ELSE digits

\* <T as Deserialize>::deserialize(captured.clone()) is Ok
Accepts(T, captured) ==
  CASE T \in {"u8", "u32", "u64"} ->
         captured.kind = "number" /\ DigitsLeq(captured.digits, MaxOf(T))
    [] T = "String" -> captured.kind = "string"
    [] T = "bool" -> captured.kind = "bool"

\* Self::$i(inner)
Variant(i, inner) == [variant |-> i, inner |-> inner]

\* one_of.rs: the first variant that accepts the content is returned
RECURSIVE one_of_rs_deserialize(_, _, _)
one_of_rs_deserialize(types, i, content) ==
  IF i > Len(types)
  THEN Err("data did not match any within oneOf")
  ELSE IF Accepts(types[i], content)
       THEN Ok(Variant(i, content))
       ELSE one_of_rs_deserialize(types, i + 1, content)

\* one_any_of.rs, one_of!: the variants from the i-th on are tried in turn,
\* result being what the earlier ones left
RECURSIVE one_of_deserialize(_, _, _, _)
one_of_deserialize(types, i, captured, result) ==
  IF i > Len(types)
  THEN result
  ELSE IF Accepts(types[i], captured)
       THEN IF ~result.ok
            THEN one_of_deserialize(types, i + 1, captured, Ok(Variant(i, captured)))
            ELSE Err("data matched multiple within oneOf")
       ELSE one_of_deserialize(types, i + 1, captured, result)

\* a plausible slip: the last variant that accepts the value is returned
RECURSIVE AnyOfLastMatch(_, _, _)
AnyOfLastMatch(types, i, captured) ==
  IF i > Len(types)
  THEN Err("data did not match any within anyOf")
  ELSE LET later == AnyOfLastMatch(types, i + 1, captured) IN
       IF later.ok THEN later
       ELSE IF Accepts(types[i], captured)
            THEN Ok(Variant(i, captured))
            ELSE later

\* one_any_of.rs, any_of!: the variants from the i-th on are tried in turn
RECURSIVE any_of_deserialize(_, _, _)
any_of_deserialize(types, i, captured) ==
  IF i > Len(types)
  THEN Err("data did not match any within anyOf")
  ELSE IF Accepts(types[i], captured)
       THEN Ok(Variant(i, captured))
       ELSE any_of_deserialize(types, i + 1, captured)

DigitChar(d) == <<"0", "1", "2", "3", "4", "5", "6", "7", "8", "9">>[d + 1]

\* inner.to_string()
InnerToString(inner) ==
  CASE inner.kind = "number" -> [i \in 1..Len(inner.digits) |-> DigitChar(inner.digits[i])]
    [] inner.kind = "string" -> inner.s
    [] inner.kind = "bool" ->
         IF inner.b THEN <<"t", "r", "u", "e">> ELSE <<"f", "a", "l", "s", "e">>

\* inner.serialize(serializer) with serde_json's serializer
InnerSerialize(inner) ==
  IF inner.kind = "string"
  THEN <<"\"">> \o inner.s \o <<"\"">>
  ELSE InnerToString(inner)

\* a plausible slip: the variant is written as an externally tagged enum
SerializeTagged(value) ==
  <<"{", "\"", <<"A", "B", "C", "D">>[value.variant], "\"", ":">>
    \o InnerSerialize(value.inner) \o <<"}">>

\* common_one_any_of!, Serialize: match self { Self::$i(inner) => inner.serialize(serializer) }
union_serialize(value) == InnerSerialize(value.inner)

\* a plausible slip: the variant is shown with its name
DisplayTagged(value) ==
  <<<<"A", "B", "C", "D">>[value.variant], "(">> \o InnerToString(value.inner) \o <<")">>

\* common_one_any_of!, Display: write!(f, "{}", inner.to_string())
union_fmt(value) == InnerToString(value.inner)

TypeLists == UNION {[1..k -> VariantTypes] : k \in 1..MaxVariants}

\* the values a OneOfN / AnyOfN of these type parameters can hold
UnionValues(types) ==
  {Variant(i, v) : i \in 1..Len(types), v \in CapturedValues} \cap
  {x \in [variant : 1..Len(types), inner : CapturedValues] :
     Accepts(types[x.variant], x.inner)}

NoUnionValue == Bool(FALSE)

UnionInit ==
  /\ uTypes \in TypeLists
  /\ uOp = "none"
  /\ uIn = NoUnionValue
  /\ uOut = NoResult

UnionIdle ==
  /\ uTypes = <<>>
  /\ uOp = "none"
  /\ uIn = NoUnionValue
  /\ uOut = NoResult

\* OneOfN::deserialize of one_any_of.rs
OneOfDeserialize ==
  /\ \E captured \in CapturedValues :
       /\ uIn' = captured
       /\ uOut' = one_of_deserialize(uTypes, 1, captured,
                                     Err("data did not match any within oneOf"))
  /\ uOp' = "OneOf::deserialize"
  /\ UNCHANGED uTypes
  /\ UNCHANGED notUnionVars

\* OneOfN::deserialize of one_of.rs
OneOfRsDeserialize ==
  /\ \E content \in CapturedValues :
       /\ uIn' = content
       /\ uOut' = one_of_rs_deserialize(uTypes, 1, content)
  /\ uOp' = "one_of.rs OneOf::deserialize"
  /\ UNCHANGED uTypes
  /\ UNCHANGED notUnionVars

AnyOfDeserialize ==
  /\ \E captured \in CapturedValues :
       /\ uIn' = captured
       /\ uOut' = any_of_deserialize(uTypes, 1, captured)
  /\ uOp' = "AnyOf::deserialize"
  /\ UNCHANGED uTypes
  /\ UNCHANGED notUnionVars

UnionSerialize ==
  /\ \E value \in UnionValues(uTypes) :
       /\ uIn' = value
       /\ uOut' = union_serialize(value)
  /\ uOp' = "serialize"
  /\ UNCHANGED uTypes
  /\ UNCHANGED notUnionVars

UnionDisplay ==
  /\ \E value \in UnionValues(uTypes) :
       /\ uIn' = value
       /\ uOut' = union_fmt(value)
  /\ uOp' = "fmt"
  /\ UNCHANGED uTypes
  /\ UNCHANGED notUnionVars

\* the texts given to from_str: "123", "300", "true", "abc", "",
\* "5000000000", "+7" and "007"
FromStrTexts ==
  { <<"1", "2", "3">>, <<"3", "0", "0">>, <<"t", "r", "u", "e">>, <<"a", "b", "c">>,
    <<>>, <<"5", "0", "0", "0", "0", "0", "0", "0", "0", "0">>, <<"+", "7">>,
    <<"0", "0", "7">> }

IsDigitChar(c) == \E d \in 0..9 : DigitChar(d) = c

DigitOf(c) == CHOOSE d \in 0..9 : DigitChar(d) = c

\* $i::from_str(x): Ok(inner) or an error; an unsigned integer is an optional
\* "+" and digits of a value within range, a bool is "true" or "false" and
\* every text is a String
InnerFromStr(T, x) ==
  CASE T \in {"u8", "u32", "u64"} ->
         LET body == IF x # <<>> /\ Head(x) = "+" THEN Tail(x) ELSE x IN
         IF body = <<>> \/ \E i \in 1..Len(body) : ~IsDigitChar(body[i])
         THEN Err("ParseIntError")
         ELSE LET digits == WithoutLeadingZeros([i \in 1..Len(body) |-> DigitOf(body[i])])
              IN IF DigitsLeq(digits, MaxOf(T)) THEN Ok(Number(digits))
                 ELSE Err("ParseIntError")
    [] T = "String" -> Ok(String(x))
    [] T = "bool" ->
         IF x = <<"t", "r", "u", "e">> THEN Ok(Bool(TRUE))
         ELSE IF x = <<"f", "a", "l", "s", "e">> THEN Ok(Bool(FALSE))
         ELSE Err("ParseBoolError")

\* a plausible slip: the first variant that parses the text is returned
RECURSIVE OneOfFromStrFirstMatch(_, _, _, _)
OneOfFromStrFirstMatch(types, i, x, result) ==
  IF i > Len(types)
  THEN result
  ELSE IF InnerFromStr(types[i], x).ok
       THEN Ok(Variant(i, InnerFromStr(types[i], x).value))
       ELSE OneOfFromStrFirstMatch(types, i + 1, x, result)

\* one_of!, FromStr: the variants from the i-th on are tried in turn, result
\* being what the earlier ones left
RECURSIVE one_of_from_str(_, _, _, _)
one_of_from_str(types, i, x, result) ==
  IF i > Len(types)
  THEN result
  ELSE IF InnerFromStr(types[i], x).ok
       THEN IF ~result.ok
            THEN one_of_from_str(types, i + 1, x,
                                 Ok(Variant(i, InnerFromStr(types[i], x).value)))
            ELSE Err("data matched multiple within oneOf")
       ELSE one_of_from_str(types, i + 1, x, result)

\* a plausible slip: a text that no variant parses gives the last variant's
\* default
RECURSIVE AnyOfFromStrOrLast(_, _, _)
AnyOfFromStrOrLast(types, i, x) ==
  IF i > Len(types)
  THEN Ok(Variant(Len(types), String(<<>>)))
  ELSE IF InnerFromStr(types[i], x).ok
       THEN Ok(Variant(i, InnerFromStr(types[i], x).value))
       ELSE AnyOfFromStrOrLast(types, i + 1, x)

\* any_of!, FromStr: the variants from the i-th on are tried in turn
RECURSIVE any_of_from_str(_, _, _)
any_of_from_str(types, i, x) ==
  IF i > Len(types)
  THEN Err("data did not match any within anyOf")
  ELSE IF InnerFromStr(types[i], x).ok
       THEN Ok(Variant(i, InnerFromStr(types[i], x).value))
       ELSE any_of_from_str(types, i + 1, x)

OneOfFromStr ==
  /\ \E x \in FromStrTexts :
       /\ uIn' = String(x)
       /\ uOut' = one_of_from_str(uTypes, 1, x, Err("data did not match any within oneOf"))
  /\ uOp' = "OneOf::from_str"
  /\ UNCHANGED uTypes
  /\ UNCHANGED notUnionVars

AnyOfFromStr ==
  /\ \E x \in FromStrTexts :
       /\ uIn' = String(x)
       /\ uOut' = any_of_from_str(uTypes, 1, x)
  /\ uOp' = "AnyOf::from_str"
  /\ UNCHANGED uTypes
  /\ UNCHANGED notUnionVars

\* the largest N for which a OneOfN is meant to be defined
MaxOneOf == 16

\* the names of the type parameters, which are also those of the variants
Letters ==
  <<"A", "B", "C", "D", "E", "F", "G", "H", "I", "J", "K", "L", "M", "N", "O", "P">>

\* one_of!(OneOf<n>, A, B, ...) with count parameters
Invocation(n, count) == [name |-> n, params |-> SubSeq(Letters, 1, count)]

\* the invocations of one_of! in one_of.rs
OneOfRsInvocations ==
  << Invocation(1, 1), Invocation(2, 2), Invocation(3, 3), Invocation(4, 4),
     Invocation(5, 5), Invocation(6, 6), Invocation(7, 7), Invocation(8, 8),
     Invocation(9, 9), Invocation(10, 10), Invocation(12, 11), Invocation(13, 12),
     Invocation(14, 13), Invocation(15, 14), Invocation(16, 15) >>

\* the invocations of one_of! in one_any_of.rs
OneAnyOfInvocations ==
  << Invocation(1, 1), Invocation(2, 2), Invocation(3, 3), Invocation(4, 4),
     Invocation(5, 5), Invocation(6, 6), Invocation(7, 7), Invocation(8, 8),
     Invocation(9, 9), Invocation(10, 10), Invocation(11, 11), Invocation(12, 12),
     Invocation(13, 13), Invocation(14, 14), Invocation(15, 15),
     Invocation(16, 16) >>

\* pub enum $t<$($i),*> { $($i($i)),* }: one variant for each parameter
EnumVariants(params) == params

\* $( if let Ok(inner) = <$i as Deserialize>::deserialize(..) {..} )*: the
\* variants deserialize tries, in order
DeserializeCandidates(params) == params

\* the type OneOf<n> as the invocations define it, if they do
OneOfType(invocations, n) ==
  IF \E k \in 1..Len(invocations) : invocations[k].name = n
  THEN LET inv == invocations[CHOOSE k \in 1..Len(invocations) : invocations[k].name = n]
       IN Ok([variants |-> EnumVariants(inv.params),
              candidates |-> DeserializeCandidates(inv.params)])
  ELSE Err("cannot find type in this scope")

\* n in decimal digits
DigitsOf(n) == IF n < 10 THEN <<n>> ELSE <<n \div 10, n % 10>>

\* the type OneOf<n> of one_of.rs is named; uTypes holds its parameters
OneOfRsNamed ==
  /\ uOp = "none"
  /\ \E n \in 1..MaxOneOf :
       LET type == OneOfType(OneOfRsInvocations, n) IN
       /\ uIn' = Number(DigitsOf(n))
       /\ uOut' = type
       /\ uTypes' = IF type.ok THEN type.value.candidates ELSE <<>>
  /\ uOp' = "one_of.rs OneOfN"
  /\ UNCHANGED notUnionVars

\* the type OneOf<n> of one_any_of.rs is named; uTypes holds its parameters
OneOfNamed ==
  /\ uOp = "none"
  /\ \E n \in 1..MaxOneOf :
       LET type == OneOfType(OneAnyOfInvocations, n) IN
       /\ uIn' = Number(DigitsOf(n))
       /\ uOut' = type
       /\ uTypes' = IF type.ok THEN type.value.candidates ELSE <<>>
  /\ uOp' = "OneOfN"
  /\ UNCHANGED notUnionVars

\* deserialize of a OneOfN whose parameter named by a letter is a type that
\* accepts the content holding that letter and no other: the candidates from
\* the i-th on are tried in turn
RECURSIVE named_deserialize(_, _, _)
named_deserialize(candidates, i, letter) ==
  IF i > Len(candidates)
  THEN Err("data did not match any within oneOf")
  ELSE IF candidates[i] = letter
       THEN Ok(Variant(i, String(<<letter>>)))
       ELSE named_deserialize(candidates, i + 1, letter)

\* a value of the type just named is deserialized
NamedDeserialize ==
  /\ uOp \in {"one_of.rs OneOfN", "OneOfN"}
  /\ uOut.ok
  /\ \E letter \in {Letters[k] : k \in 1..MaxOneOf} :
       /\ uIn' = String(<<letter>>)
       /\ uOut' = named_deserialize(uTypes, 1, letter)
  /\ uOp' = "OneOfN::deserialize"
  /\ UNCHANGED uTypes
  /\ UNCHANGED notUnionVars

\* ------------------------------------------------------------------------
\* ByteArray (base64_format.rs)
\* ------------------------------------------------------------------------
\* the standard base64 alphabet; "=" pads
Alphabet ==
  << "A", "B", "C", "D", "E", "F", "G", "H", "I", "J", "K", "L", "M",
     "N", "O", "P", "Q", "R", "S", "T", "U", "V", "W", "X", "Y", "Z",
     "a", "b", "c", "d", "e", "f", "g", "h", "i", "j", "k", "l", "m",
     "n", "o", "p", "q", "r", "s", "t", "u", "v", "w", "x", "y", "z",
     "0", "1", "2", "3", "4", "5", "6", "7", "8", "9", "+", "/" >>

ByteValues == {0, 77, 251, 255}

\* Vec<u8>
ByteArrays == UNION {[1..k -> ByteValues] : k \in 0..MaxBytes}

\* the characters of one group of one, two or three bytes
EncodeGroup(g) ==
  LET Char(sextet) == Alphabet[sextet + 1] IN
  CASE Len(g) = 1 ->
         <<Char(g[1] \div 4), Char((g[1] % 4) * 16), "=", "=">>
    [] Len(g) = 2 ->
         <<Char(g[1] \div 4), Char((g[1] % 4) * 16 + g[2] \div 16),
           Char((g[2] % 16) * 4), "=">>
    [] Len(g) = 3 ->
         <<Char(g[1] \div 4), Char((g[1] % 4) * 16 + g[2] \div 16),
           Char((g[2] % 16) * 4 + g[3] \div 64), Char(g[3] % 64)>>

\* base64::encode: three bytes to four characters, the last group padded
RECURSIVE encode(_)
encode(bytes) ==
  IF bytes = <<>> THEN <<>>
  ELSE IF Len(bytes) <= 3 THEN EncodeGroup(bytes)
  ELSE EncodeGroup(SubSeq(bytes, 1, 3)) \o encode(SubSeq(bytes, 4, Len(bytes)))

\* the bytes of one group of two, three or four characters
DecodeGroup(g) ==
  LET Sextet(c) == (CHOOSE i \in 1..64 : Alphabet[i] = c) - 1
      s == [i \in 1..Len(g) |-> Sextet(g[i])]
  IN CASE Len(g) = 2 -> <<s[1] * 4 + s[2] \div 16>>
       [] Len(g) = 3 -> <<s[1] * 4 + s[2] \div 16, (s[2] % 16) * 16 + s[3] \div 4>>
       [] Len(g) = 4 ->
            <<s[1] * 4 + s[2] \div 16, (s[2] % 16) * 16 + s[3] \div 4,
              (s[3] % 4) * 64 + s[4]>>

RECURSIVE DecodeGroups(_)
DecodeGroups(symbols) ==
  IF symbols = <<>> THEN <<>>
  ELSE IF Len(symbols) <= 4 THEN DecodeGroup(symbols)
  ELSE DecodeGroup(SubSeq(symbols, 1, 4)) \o DecodeGroups(SubSeq(symbols, 5, Len(symbols)))

\* base64::decode: Err for a character outside the alphabet, padding
\* anywhere but at the end of the last group, a last group of one symbol, or
\* a last symbol with bits that belong to no byte
decode(text) ==
  LET n == Len(text)
      pad == IF n >= 2 /\ text[n] = "=" /\ text[n - 1] = "=" THEN 2
             ELSE IF n >= 1 /\ text[n] = "=" THEN 1 ELSE 0
      symbols == SubSeq(text, 1, n - pad)
      k == Len(symbols)
      Sextet(c) == (CHOOSE i \in 1..64 : Alphabet[i] = c) - 1
  IN IF \E i \in 1..k : \A j \in 1..64 : Alphabet[j] # symbols[i]
     THEN Err("InvalidByte")
     ELSE IF k % 4 = 1 \/ (pad > 0 /\ (k + pad) % 4 # 0)
     THEN Err("InvalidLength")
     ELSE IF \/ (k % 4 = 2 /\ Sextet(symbols[k]) % 16 # 0)
             \/ (k % 4 = 3 /\ Sextet(symbols[k]) % 4 # 0)
     THEN Err("InvalidLastSymbol")
     ELSE Ok(DecodeGroups(symbols))

\* ByteArray::serialize: serializer.serialize_str(&encode(&self.0))
ByteArray_serialize(bytes) == encode(bytes)

\* ByteArray::to_string
ByteArray_to_string(bytes) == encode(bytes)

\* a plausible slip: a text that does not decode gives the default value
DeserializeOrDefault(s) ==
  IF decode(s).ok THEN Ok(decode(s).value) ELSE Ok(<<>>)

\* ByteArray::deserialize, of the string s
ByteArray_deserialize(s) ==
  IF decode(s).ok THEN Ok(decode(s).value) ELSE Err("invalid base64")

\* ByteArray::from_str: Ok(Self(decode(s)?))
ByteArray_from_str(s) == decode(s)

\* texts written elsewhere: "TQ==", "!", "Q", "QQ==Q" and "Q*=="
ForeignTexts ==
  { <<"T", "Q", "=", "=">>, <<"!">>, <<"Q">>, <<"Q", "Q", "=", "=", "Q">>,
    <<"Q", "*", "=", "=">> }

NoBytes == <<256>>

Base64Init ==
  /\ bBytes = NoBytes
  /\ bText = <<>>
  /\ bOp = "none"
  /\ bOut = NoResult

ByteArraySerialize ==
  /\ \E bytes \in ByteArrays :
       /\ bBytes' = bytes
       /\ bText' = ByteArray_serialize(bytes)
  /\ bOp' = "serialize"
  /\ bOut' = NoResult
  /\ UNCHANGED notBase64Vars

ByteArrayToString ==
  /\ \E bytes \in ByteArrays :
       /\ bBytes' = bytes
       /\ bText' = ByteArray_to_string(bytes)
  /\ bOp' = "to_string"
  /\ bOut' = NoResult
  /\ UNCHANGED notBase64Vars

\* a text arrives that was written elsewhere
ForeignText ==
  /\ bText' \in ForeignTexts
  /\ bBytes' = NoBytes
  /\ bOp' = "received"
  /\ bOut' = NoResult
  /\ UNCHANGED notBase64Vars

ByteArrayDeserialize ==
  /\ bOp # "none"
  /\ bOut' = ByteArray_deserialize(bText)
  /\ bOp' = "deserialize"
  /\ UNCHANGED <<bBytes, bText>>
  /\ UNCHANGED notBase64Vars

ByteArrayFromStr ==
  /\ bOp # "none"
  /\ bOut' = ByteArray_from_str(bText)
  /\ bOp' = "from_str"
  /\ UNCHANGED <<bBytes, bText>>
  /\ UNCHANGED notBase64Vars

\* ------------------------------------------------------------------------
\* Form / simple style codec (serde/ser.rs, serde/de.rs)
\* ------------------------------------------------------------------------
\* the characters urlencoding escapes, among those the model's strings hold;
\* letters, digits, "-", "_", "." and "~" are written as they are
Reserved == {",", ";", "%"}

PercentCode(c) ==
  CASE c = "," -> <<"%", "2", "C">>
    [] c = ";" -> <<"%", "3", "B">>
    [] c = "%" -> <<"%", "2", "5">>

\* urlencoding::encode
RECURSIVE url_encode(_)
url_encode(s) ==
  IF s = <<>> THEN <<>>
  ELSE (IF Head(s) \in Reserved THEN PercentCode(Head(s)) ELSE <<Head(s)>>)
       \o url_encode(Tail(s))

\* urlencoding::decode: an escape gives its character, a "%" that starts no
\* escape stays
RECURSIVE url_decode(_)
url_decode(s) ==
  IF s = <<>> THEN <<>>
  ELSE IF Len(s) >= 3 /\ \E c \in Reserved : PercentCode(c) = SubSeq(s, 1, 3)
       THEN <<CHOOSE c \in Reserved : PercentCode(c) = SubSeq(s, 1, 3)>>
            \o url_decode(SubSeq(s, 4, Len(s)))
       ELSE <<Head(s)>> \o url_decode(Tail(s))

\* write!(writer, "{}", v) of an integer
RECURSIVE IntText(_)
IntText(n) ==
  IF n < 0 THEN <<"-">> \o IntText(0 - n)
  ELSE IF n < 10 THEN <<DigitChar(n)>>
  ELSE IntText(n \div 10) \o <<DigitChar(n % 10)>>

\* str::parse::<i32>(): an optional sign, then one or more digits
ParseInt(buf) ==
  LET signed == Len(buf) >= 1 /\ buf[1] \in {"-", "+"}
      digits == IF signed THEN Tail(buf) ELSE buf
      IsDigit(c) == \E d \in 0..9 : DigitChar(d) = c
      Digit(c) == CHOOSE d \in 0..9 : DigitChar(d) = c
      Value[i \in 0..Len(digits)] ==
        IF i = 0 THEN 0 ELSE Value[i - 1] * 10 + Digit(digits[i])
  IN IF digits = <<>> \/ \E i \in 1..Len(digits) : ~IsDigit(digits[i])
     THEN Err("ExpectedInt")
     ELSE Ok(IF signed /\ buf[1] = "-" THEN 0 - Value[Len(digits)] ELSE Value[Len(digits)])

\* a scalar: an i32 (i), a bool (b), or a char or String (s)
Scalar(i, b, s) == [i |-> i, b |-> b, s |-> s]

\* Serializer::serialize_i32 / serialize_bool / serialize_char / serialize_str
serialize_scalar(kind, v) ==
  CASE kind = "i32" -> IntText(v.i)
    [] kind = "bool" ->
         IF v.b THEN <<"t", "r", "u", "e">> ELSE <<"f", "a", "l", "s", "e">>
    [] kind = "char" -> v.s
    [] kind = "String" -> url_encode(v.s)

\* Deserializer::deserialize_i32 / deserialize_bool / deserialize_char /
\* deserialize_str of one token
deserialize_scalar(kind, token) ==
  LET buf == IF \E i \in 1..Len(token) : token[i] = "%"
             THEN url_decode(token) ELSE token
  IN CASE kind = "i32" ->
            IF ParseInt(token).ok
            THEN Ok(Scalar(ParseInt(token).value, FALSE, <<>>))
            ELSE ParseInt(token)
       [] kind = "bool" ->
            IF token = <<"t", "r", "u", "e">> THEN Ok(Scalar(0, TRUE, <<>>))
            ELSE IF token = <<"f", "a", "l", "s", "e">> THEN Ok(Scalar(0, FALSE, <<>>))
            ELSE Err("InvalidBool")
       [] kind = "char" ->
            IF buf = <<>> THEN Err("EmptyChar")
            ELSE IF Len(buf) > 1 THEN Err("MultiCharacterChar")
            ELSE Ok(Scalar(0, FALSE, buf))
       [] kind = "String" -> Ok(Scalar(0, FALSE, buf))

\* a plausible slip: the separator is written before every element
ElementAlwaysSeparated(field, text) ==
  [writer |-> field.writer \o <<",">> \o text, first |-> FALSE]

\* SerializeSeq::serialize_element, where text is what value.serialize writes
serialize_element(field, text) ==
  [writer |-> IF ~field.first THEN field.writer \o <<",">> \o text
              ELSE field.writer \o text,
   first |-> FALSE]

\* SerializerField::new(writer)
SerializerField_new == [writer |-> <<>>, first |-> TRUE]

\* SerializeStruct::serialize_field for each field in turn: the key, then
\* the value
RECURSIVE SerializeFields(_, _)
SerializeFields(field, fields) ==
  IF fields = <<>> THEN field
  ELSE LET f == Head(fields)
           key == serialize_element(field, url_encode(f.name))
           value == serialize_element(key, serialize_scalar(f.kind, f.value))
       IN SerializeFields(value, Tail(fields))

\* Vec<String>::serialize: serialize_element for each item in turn
RECURSIVE SerializeItems(_, _)
SerializeItems(field, items) ==
  IF items = <<>> THEN field
  ELSE SerializeItems(serialize_element(field, url_encode(Head(items))),
                      Tail(items))

\* ser::to_string
to_string(value) ==
  IF value.shape = "struct"
  THEN SerializeFields(SerializerField_new, value.fields).writer
  ELSE SerializeItems(SerializerField_new, value.items).writer

\* buf.split(','): the pieces between the commas, one piece for a text
\* without any
RECURSIVE Split(_)
Split(buf) ==
  IF \E i \in 1..Len(buf) : buf[i] = ","
  THEN LET i == CHOOSE k \in 1..Len(buf) :
                  buf[k] = "," /\ \A j \in 1..(k - 1) : buf[j] # ","
       IN <<SubSeq(buf, 1, i - 1)>> \o Split(SubSeq(buf, i + 1, Len(buf)))
  ELSE <<buf>>

\* visit_seq of Vec<String> over DeserializerField: next_element_seed until
\* the pieces are used up
RECURSIVE VisitSeq(_)
VisitSeq(pieces) ==
  IF pieces = <<>> THEN Ok(<<>>)
  ELSE Ok(<<deserialize_scalar("String", Head(pieces)).value.s>>
          \o VisitSeq(Tail(pieces)).value)

\* visit_map of a derived struct over DeserializerField: next_key_seed,
\* then next_value_seed, until the pieces are used up; got holds the values
\* read so far
RECURSIVE VisitMap(_, _, _)
VisitMap(fields, pieces, got) ==
  IF pieces = <<>>
  THEN IF \E i \in 1..Len(fields) : ~got[i].ok
       THEN Err("missing field")
       ELSE Ok([i \in 1..Len(fields) |->
                  [name |-> fields[i].name, kind |-> fields[i].kind,
                   value |-> got[i].value]])
  ELSE LET key == deserialize_scalar("String", pieces[1]).value.s IN
       IF \A i \in 1..Len(fields) : fields[i].name # key
       THEN IF Len(pieces) < 2 THEN Err("MissingValueForObject")
            ELSE Err("AnyTypeUnsupported")
       ELSE LET i == CHOOSE k \in 1..Len(fields) : fields[k].name = key IN
            IF got[i].ok THEN Err("duplicate field")
            ELSE IF Len(pieces) < 2 THEN Err("MissingValueForObject")
            ELSE LET v == deserialize_scalar(fields[i].kind, pieces[2]) IN
                 IF ~v.ok THEN v
                 ELSE VisitMap(fields, SubSeq(pieces, 3, Len(pieces)),
                               [got EXCEPT ![i] = v])

\* de::from_str::<T>, T being the type of the value like
from_str(like, text) ==
  IF like.shape = "struct"
  THEN LET r == VisitMap(like.fields, Split(text), [i \in 1..Len(like.fields) |-> NoResult])
       IN IF r.ok THEN Ok([shape |-> "struct", fields |-> r.value, items |-> <<>>]) ELSE r
  ELSE Ok([shape |-> "seq", fields |-> <<>>, items |-> VisitSeq(Split(text)).value])

\* the strings of the tests and some with reserved characters: "", "blue",
\* ",", ";", "%", "a,b" and "%2C"
FormStrings ==
  { <<>>, <<"b", "l", "u", "e">>, <<",">>, <<";">>, <<"%">>, <<"a", ",", "b">>,
    <<"%", "2", "C">> }

FormInts == {100, 200, 150, 0 - 5}

FormChars == {"a", ",", "%"}

Field(name, kind, value) == [name |-> name, kind |-> kind, value |-> value]

Struct(fields) == [shape |-> "struct", fields |-> fields, items |-> <<>>]

\* Vec<String>
StringSeqs ==
  {[shape |-> "seq", fields |-> <<>>, items |-> items] :
     items \in UNION {[1..k -> FormStrings] : k \in 0..MaxItems}}

\* struct Object {R, G, B: i32}, struct Escaped {semi, dot, comma: String}
\* and a struct of a bool, a char and an integer
FlatStructs ==
  {Struct(<<Field(<<"R">>, "i32", Scalar(r, FALSE, <<>>)), Field(<<"G">>, "i32", Scalar(g, FALSE, <<>>)),
            Field(<<"B">>, "i32", Scalar(b, FALSE, <<>>))>>) :
     r \in FormInts, g \in {200}, b \in FormInts}
  \cup
  {Struct(<<Field(<<"s", "e", "m", "i">>, "String", Scalar(0, FALSE, s)),
            Field(<<"d", "o", "t">>, "String", Scalar(0, FALSE, d)),
            Field(<<"c", "o", "m", "m", "a">>, "String", Scalar(0, FALSE, c))>>) :
     s \in FormStrings, d \in {<<".">>}, c \in FormStrings}
  \cup
  {Struct(<<Field(<<"o", "n">>, "bool", Scalar(0, o, <<>>)), Field(<<"c">>, "char", Scalar(0, FALSE, <<c>>)),
            Field(<<"n">>, "i32", Scalar(n, FALSE, <<>>))>>) :
     o \in BOOLEAN, c \in FormChars, n \in FormInts}

NoFormValue == [shape |-> "none", fields |-> <<>>, items |-> <<>>]

FormInit ==
  /\ fValue = NoFormValue
  /\ fText = <<>>
  /\ fOp = "none"
  /\ fOut = NoResult

StructToString ==
  /\ \E value \in FlatStructs :
       /\ fValue' = value
       /\ fText' = to_string(value)
  /\ fOp' = "to_string"
  /\ fOut' = NoResult
  /\ UNCHANGED notFormVars

SeqToString ==
  /\ \E value \in StringSeqs :
       /\ fValue' = value
       /\ fText' = to_string(value)
  /\ fOp' = "to_string"
  /\ fOut' = NoResult
  /\ UNCHANGED notFormVars

\* the text is read back as a value of the type it was written from
FromStr ==
  /\ fOp = "to_string"
  /\ fOut' = from_str(fValue, fText)
  /\ fOp' = "from_str"
  /\ UNCHANGED <<fValue, fText>>
  /\ UNCHANGED notFormVars

\* ------------------------------------------------------------------------
\* IntoHeaderValue (header.rs)
\* ------------------------------------------------------------------------
\* the characters the header values below are written with, and their bytes
AsciiChars ==
  <<" ", "+", ",", "-", "0", "1", "2", "3", "4", "5", "6", "7", "8", "9", ":",
    "T", "Z", "a", "b">>

AsciiCodes ==
  <<32, 43, 44, 45, 48, 49, 50, 51, 52, 53, 54, 55, 56, 57, 58, 84, 90, 97, 98>>

\* HeaderValue::from_static(text)
AsBytes(text) ==
  [i \in 1..Len(text) |->
     AsciiCodes[CHOOSE k \in 1..Len(AsciiChars) : AsciiChars[k] = text[i]]]

\* "1985-04-12T23:20:50Z"
Rfc3339Example ==
  AsBytes(<<"1", "9", "8", "5", "-", "0", "4", "-", "1", "2", "T", "2", "3", ":",
            "2", "0", ":", "5", "0", "Z">>)

\* the header values converted: "a1", "", a non-ASCII character, "42", "-7",
\* "+5", "007", "-", "65536", "-32768", "4294967296", "9223372036854775808",
\* "18446744073709551616", "a, b", " ,a,,", a date-time and a date
DecodedHeaderValues ==
  { <<97, 49>>, <<>>, <<194, 163>>,
    AsBytes(<<"4", "2">>), AsBytes(<<"-", "7">>), AsBytes(<<"+", "5">>),
    AsBytes(<<"0", "0", "7">>), AsBytes(<<"-">>),
    AsBytes(<<"6", "5", "5", "3", "6">>), AsBytes(<<"-", "3", "2", "7", "6", "8">>),
    AsBytes(<<"4", "2", "9", "4", "9", "6", "7", "2", "9", "6">>),
    AsBytes(<<"9", "2", "2", "3", "3", "7", "2", "0", "3", "6", "8", "5", "4", "7",
              "7", "5", "8", "0", "8">>),
    AsBytes(<<"1", "8", "4", "4", "6", "7", "4", "4", "0", "7", "3", "7", "0", "9",
              "5", "5", "1", "6", "1", "6">>),
    AsBytes(<<"a", ",", " ", "b">>), AsBytes(<<" ", ",", "a", ",", ",">>),
    Rfc3339Example,
    AsBytes(<<"1", "9", "8", "5", "-", "0", "4", "-", "1", "2">>) }

\* the integer types ihv_generate! is invoked for, usize and isize (whose
\* width is the target's) left out
IhvIntegerTypes == {"u64", "i64", "i16", "u16", "u32", "i32"}

IhvTypes == IhvIntegerTypes \cup {"Vec<String>", "String", "DateTime<Utc>"}

IsSigned(T) == T \in {"i64", "i16", "i32"}

\* $t::MAX in decimal digits
IntMax(T) ==
  CASE T = "u16" -> <<6, 5, 5, 3, 5>>
    [] T = "i16" -> <<3, 2, 7, 6, 7>>
    [] T = "u32" -> <<4, 2, 9, 4, 9, 6, 7, 2, 9, 5>>
    [] T = "i32" -> <<2, 1, 4, 7, 4, 8, 3, 6, 4, 7>>
    [] T = "u64" -> <<1, 8, 4, 4, 6, 7, 4, 4, 0, 7, 3, 7, 0, 9, 5, 5, 1, 6, 1, 5>>
    [] T = "i64" -> <<9, 2, 2, 3, 3, 7, 2, 0, 3, 6, 8, 5, 4, 7, 7, 5, 8, 0, 7>>

\* the magnitude of $t::MIN of a signed type: that of $t::MAX, plus one
IntMinMagnitude(T) ==
  LET max == IntMax(T) IN [max EXCEPT ![Len(max)] = max[Len(max)] + 1]

\* str::parse::<$t>(): an optional sign ("-" for the signed types only),
\* then one or more decimal digits of a value within the type's range
ParseInteger(T, text) ==
  LET signed == Len(text) >= 1 /\ (text[1] = 43 \/ (text[1] = 45 /\ IsSigned(T)))
      negative == signed /\ text[1] = 45
      body == IF signed THEN Tail(text) ELSE text
      digits == WithoutLeadingZeros([i \in 1..Len(body) |-> body[i] - 48])
  IN IF text = <<>> THEN Err("Empty")
     ELSE IF body = <<>> \/ \E i \in 1..Len(body) : body[i] < 48 \/ body[i] > 57
          THEN Err("InvalidDigit")
          ELSE IF negative
               THEN IF DigitsLeq(digits, IntMinMagnitude(T))
                    THEN Ok([negative |-> TRUE, digits |-> digits])
                    ELSE Err("NegOverflow")
               ELSE IF DigitsLeq(digits, IntMax(T))
                    THEN Ok([negative |-> FALSE, digits |-> digits])
                    ELSE Err("PosOverflow")

\* DateTime::parse_from_rfc3339: of the values above, only the date-time is
\* one
ParseRfc3339(text) ==
  IF text = Rfc3339Example THEN Ok(text) ELSE Err("ParseError")

\* str::split(',')
RECURSIVE SplitAtCommas(_)
SplitAtCommas(text) ==
  IF \E i \in 1..Len(text) : text[i] = 44
  THEN LET i == CHOOSE k \in 1..Len(text) :
                  text[k] = 44 /\ \A j \in 1..(k - 1) : text[j] # 44
       IN <<SubSeq(text, 1, i - 1)>> \o SplitAtCommas(SubSeq(text, i + 1, Len(text)))
  ELSE <<text>>

\* str::trim
RECURSIVE Trim(_)
Trim(text) ==
  IF text # <<>> /\ Head(text) \in {32, 9} THEN Trim(Tail(text))
  ELSE IF text # <<>> /\ text[Len(text)] \in {32, 9}
       THEN Trim(SubSeq(text, 1, Len(text) - 1))
       ELSE text

\* .filter_map(|x| match x.trim() { "" => None, y => Some(y.to_string()) })
RECURSIVE TrimmedNonEmpty(_)
TrimmedNonEmpty(pieces) ==
  IF pieces = <<>> THEN <<>>
  ELSE (IF Trim(Head(pieces)) = <<>> THEN <<>> ELSE <<Trim(Head(pieces))>>)
       \o TrimmedNonEmpty(Tail(pieces))

Returned(v) == [panicked |-> FALSE, value |-> v]

Panicked == [panicked |-> TRUE, value |-> <<>>]

\* Option::unwrap / Result::unwrap of r, then f of the value
Unwrap(r) == IF "some" \in DOMAIN r THEN r.some ELSE r.ok

\* impl From<HeaderValue> for IntoHeaderValue<T>: from(hdr_value)
IntoHeaderValue_from(T, hdr_value) ==
  LET text == to_str(hdr_value) IN
  IF ~Unwrap(text) THEN Panicked
  ELSE CASE T \in IhvIntegerTypes ->
              LET n == ParseInteger(T, text.value) IN
              IF Unwrap(n) THEN Returned(n.value) ELSE Panicked
         [] T = "Vec<String>" ->
              Returned(TrimmedNonEmpty(SplitAtCommas(text.value)))
         [] T = "String" -> Returned(text.value)
         [] T = "DateTime<Utc>" ->
              LET d == ParseRfc3339(text.value) IN
              IF Unwrap(d) THEN Returned(d.value) ELSE Panicked

IhvInit ==
  /\ ihvType = "none"
  /\ ihvIn = <<>>
  /\ ihvOut = Returned(<<>>)

\* a header value is converted with .into()
IntoHeaderValueFrom ==
  /\ \E T \in IhvTypes : \E hdr_value \in DecodedHeaderValues :
       /\ ihvType' = T
       /\ ihvIn' = hdr_value
       /\ ihvOut' = IntoHeaderValue_from(T, hdr_value)
  /\ UNCHANGED notIhvVars

\* ------------------------------------------------------------------------
\* Multipart reader (multipart/related/readwrite.rs)
\* ------------------------------------------------------------------------
\* header lines, each written as one character:
\*   "M"  Content-Type: multipart/form-data; boundary=A
\*   "m"  Content-Type: multipart/mixed; boundary=B
\*   "j"  Content-Type: application/json
\*   "a"  Content-Disposition: attachment
\*   "f"  Content-Disposition: form-data; filename="f"
\*   "n"  Content-Disposition: form-data; name="n"
HeaderLines == {"M", "m", "j", "a", "f", "n"}

CRLF == <<"\r", "\n">>

LF == <<"\n">>

\* the parts that are no multipart: their header lines and their body
Leaves ==
  { [headers |-> <<"j">>, body |-> <<"x">>, parts |-> <<>>],
    [headers |-> <<"a">>, body |-> <<"x", "\r", "\n", "y">>, parts |-> <<>>],
    [headers |-> <<"n">>, body |-> <<>>, parts |-> <<>>],
    [headers |-> <<"f", "j">>, body |-> <<"y">>, parts |-> <<>>] }

\* the parts that are a multipart of one or two leaves
NestedParts ==
  { [headers |-> <<"n", "m">>, body |-> <<>>, parts |-> ps] :
      ps \in [1..1 -> Leaves] \cup [1..2 -> Leaves] }

IsNested(part) == part.parts # <<>>

RECURSIVE Concat(_)
Concat(seqs) == IF seqs = <<>> THEN <<>> ELSE Head(seqs) \o Concat(Tail(seqs))

\* a multipart body as the tests write it: for each part the boundary, a
\* line terminator, the header lines, a blank line, the content and a line
\* terminator, then the closing boundary
RECURSIVE Body(_, _, _)
Body(name, lt, parts) ==
  Concat([i \in 1..Len(parts) |->
            <<"-", "-", name>> \o lt
            \o Concat([k \in 1..Len(parts[i].headers) |-> <<parts[i].headers[k]>> \o lt])
            \o lt
            \o (IF IsNested(parts[i]) THEN Body("B", lt, parts[i].parts)
                ELSE parts[i].body)
            \o lt])
  \o <<"-", "-", name, "-", "-">>

min(a, b) == IF a < b THEN a ELSE b

\* BufRead::fill_buf()[..n]: up to n bytes ahead, none of them consumed
Peek(stream, pos, n) == SubSeq(stream, pos, min(pos + n - 1, Len(stream)))

\* BufReadExt::stream_until_token: the bytes up to the token are read and
\* the token is consumed; at the end of the stream the token is not found
stream_until_token(stream, pos, token) ==
  LET At(k) == SubSeq(stream, k, k + Len(token) - 1) = token
      last == Len(stream) - Len(token) + 1
  IN IF \E k \in pos..last : At(k)
     THEN LET k == CHOOSE k \in pos..last : At(k) /\ \A j \in pos..(k - 1) : ~At(j)
          IN [found |-> TRUE, read |-> SubSeq(stream, pos, k - 1), pos |-> k + Len(token)]
     ELSE [found |-> FALSE, read |-> SubSeq(stream, pos, Len(stream)),
           pos |-> Len(stream) + 1]

\* the lines of a header block
RECURSIVE Lines(_, _)
Lines(buf, lt) ==
  LET t == stream_until_token(buf, 1, lt) IN
  IF t.found THEN <<t.read>> \o Lines(SubSeq(buf, t.pos, Len(buf)), lt)
  ELSE <<buf>>

\* httparse::parse_headers into header_memory of 4, then Headers::from_raw
parse_headers(buf, lt) ==
  LET lines == Lines(buf, lt) IN
  IF \E i \in 1..Len(lines) : Len(lines[i]) # 1 \/ lines[i][1] \notin HeaderLines
  THEN Err("Httparse")
  ELSE IF Len(lines) > 4 THEN Err("Httparse(TooManyHeaders)")
  ELSE Ok([i \in 1..Len(lines) |-> lines[i][1]])

HasLine(headers, lines) == \E i \in 1..Len(headers) : headers[i] \in lines

\* get_multipart_boundary
get_multipart_boundary(headers) ==
  IF ~HasLine(headers, {"M", "m", "j"}) THEN Err("NoRequestContentType")
  ELSE IF ~HasLine(headers, {"M", "m"}) THEN Err("NotMultipart")
  ELSE IF HasLine(headers, {"M"}) THEN Ok(<<"-", "-", "A">>)
  ELSE Ok(<<"-", "-", "B">>)

\* Node::Part, Node::File (the FilePart's headers and size, and the content
\* of its file) and Node::Multipart
NodePart(headers, body) ==
  [node |-> "Part", headers |-> headers, body |-> body, size |-> None, nodes |-> <<>>]

NodeFile(headers, size, content) ==
  [node |-> "File", headers |-> headers, body |-> content, size |-> Some(size),
   nodes |-> <<>>]

NodeMultipart(headers, nodes) ==
  [node |-> "Multipart", headers |-> headers, body |-> <<>>, size |-> None,
   nodes |-> nodes]

Failed(e) == [ok |-> FALSE, error |-> e, nodes |-> <<>>, pos |-> 0]

\* a plausible slip: only always_use_files makes a file of a part
IsFileOnlyWhenAlways(always_use_files, part_headers) == always_use_files

\* let is_file = always_use_files || { .. Attachment .. or a Filename .. }
is_file(always_use_files, part_headers) ==
  \/ always_use_files
  \/ HasLine(part_headers, {"a"})
  \/ HasLine(part_headers, {"f"})

\* inner: past the first boundary, then the loop over the parts from pos on
RECURSIVE inner(_, _, _, _), PartsLoop(_, _, _, _, _, _)
inner(stream, pos, headers, always_use_files) ==
  LET boundary == get_multipart_boundary(headers) IN
  IF ~boundary.ok THEN Failed(boundary.error)
  ELSE LET first == stream_until_token(stream, pos, boundary.value) IN
       IF ~first.found THEN Failed("EofBeforeFirstBoundary")
       ELSE IF Peek(stream, first.pos, 2) = CRLF
            THEN PartsLoop(stream, first.pos, CRLF, boundary.value, <<>>,
                           always_use_files)
            ELSE IF Peek(stream, first.pos, 1) = LF
                 THEN PartsLoop(stream, first.pos, LF, boundary.value, <<>>,
                                always_use_files)
                 ELSE Failed("NoCrLfAfterBoundary")

PartsLoop(stream, pos, lt, boundary, nodes, always_use_files) ==
  IF Peek(stream, pos, 2) = <<"-", "-">>
  THEN [ok |-> TRUE, error |-> "", nodes |-> nodes, pos |-> pos]
  ELSE
    LET after == stream_until_token(stream, pos, lt) IN
    IF ~after.found THEN Failed("NoCrLfAfterBoundary")
    ELSE
    LET block == stream_until_token(stream, after.pos, lt \o lt) IN
    IF ~block.found THEN Failed("EofInPartHeaders")
    ELSE
    LET part_headers == parse_headers(block.read, lt) IN
    IF ~part_headers.ok THEN Failed(part_headers.error)
    ELSE IF HasLine(part_headers.value, {"M", "m"})
    THEN LET r == inner(stream, block.pos, part_headers.value, always_use_files) IN
         IF ~r.ok THEN r
         ELSE PartsLoop(stream, r.pos, lt, boundary,
                        Append(nodes, NodeMultipart(part_headers.value, r.nodes)),
                        always_use_files)
    ELSE LET content == stream_until_token(stream, block.pos, lt \o boundary) IN
         IF is_file(always_use_files, part_headers.value)
         THEN IF ~content.found THEN Failed("EofInFile")
              ELSE PartsLoop(stream, content.pos, lt, boundary,
                             Append(nodes, NodeFile(part_headers.value,
                                                    Len(content.read), content.read)),
                             always_use_files)
         ELSE IF ~content.found THEN Failed("EofInPart")
              ELSE PartsLoop(stream, content.pos, lt, boundary,
                             Append(nodes, NodePart(part_headers.value, content.read)),
                             always_use_files)

\* read_multipart_body(stream, headers, always_use_files)
read_multipart_body(stream, headers, always_use_files) ==
  LET r == inner(stream, 1, headers, always_use_files) IN
  IF r.ok THEN Ok(r.nodes) ELSE Err(r.error)

\* the parts of a document: leaves and multiparts
Parts == Leaves \cup NestedParts

Documents ==
  [lt : {CRLF, LF}, parts : UNION {[1..k -> Parts] : k \in 1..MaxParts}]

NoDocument == [lt |-> <<>>, parts |-> <<>>]

MultipartInit ==
  /\ mpIn = NoDocument
  /\ mpAlways = FALSE
  /\ mpStream = <<>>
  /\ mpOp = "none"
  /\ mpOut = NoResult

\* the body of a document is read, once
ReadMultipartBody ==
  /\ mpOp = "none"
  /\ \E doc \in Documents : \E always_use_files \in BOOLEAN :
       LET stream == Body("A", doc.lt, doc.parts) IN
       /\ mpIn' = doc
       /\ mpAlways' = always_use_files
       /\ mpStream' = stream
       /\ mpOut' = read_multipart_body(stream, <<"M">>, always_use_files)
  /\ mpOp' = "read"
  /\ UNCHANGED notMpVars

\* the stream ends before the end of the body of a document of one part
ReadTruncatedBody ==
  /\ mpOp = "none"
  /\ \E doc \in Documents : \E always_use_files \in BOOLEAN :
       LET whole == Body("A", doc.lt, doc.parts) IN
       /\ Len(doc.parts) = 1
       /\ \E n \in 0..(Len(whole) - 1) :
            /\ mpStream' = SubSeq(whole, 1, n)
            /\ mpOut' = read_multipart_body(SubSeq(whole, 1, n), <<"M">>,
                                            always_use_files)
       /\ mpIn' = doc
       /\ mpAlways' = always_use_files
  /\ mpOp' = "read_truncated"
  /\ UNCHANGED notMpVars

\* ------------------------------------------------------------------------
\* Specifications
\* ------------------------------------------------------------------------
\* a built CompositeService in use
Init == ServiceInit /\ MakeInit /\ CtxInit /\ SpanInit
  /\ MwIdle /\ UnionIdle /\ Base64Init /\ FormInit
  /\ IhvInit
  /\ MultipartInit

Next == Call \/ Resolve \/ PollReady \/ DerefMutRemove \/ DerefMutSwap

Spec == Init /\ [][Next]_vars

\* a CompositeMakeService from new() on
MakeSpecInit == MakeInit /\ ServiceIdle /\ CtxInit /\ SpanInit
  /\ MwIdle /\ UnionIdle /\ Base64Init /\ FormInit
  /\ IhvInit
  /\ MultipartInit

MakeNext ==
  MakePush \/ MakeCall \/ FactoryResolve \/ JoinAllReady \/ MakePollReady

MakeSpec == MakeSpecInit /\ [][MakeNext]_vars

\* a context list from Empty::default() on
ContextInit == CtxInit /\ ServiceIdle /\ MakeInit /\ SpanInit
  /\ MwIdle /\ UnionIdle /\ Base64Init /\ FormInit
  /\ IhvInit
  /\ MultipartInit

ContextNext == CtxPush \/ CtxPop \/ CtxSet \/ CtxPopThenPush \/ CtxMakeContext

ContextSpec == ContextInit /\ [][ContextNext]_vars

\* requests handed to the X-Span-ID helper
HeaderInit == SpanInit /\ ServiceIdle /\ MakeInit /\ CtxInit
  /\ MwIdle /\ UnionIdle /\ Base64Init /\ FormInit
  /\ IhvInit
  /\ MultipartInit

HeaderNext == GetOrGenerate

HeaderSpec == HeaderInit /\ [][HeaderNext]_vars

\* the middleware adapters, each wrapping a service
MiddlewareInit ==
  MwInit /\ SpanInit /\ ServiceIdle /\ MakeInit /\ CtxInit /\ UnionIdle
  /\ Base64Init /\ FormInit
  /\ IhvInit
  /\ MultipartInit

MiddlewareNext ==
  \/ AddContextCall \/ DropContextCall \/ DropContextRequest
  \/ MakeAllowAllCall \/ AllowAllCall \/ MwResolve

MiddlewareSpec == MiddlewareInit /\ [][MiddlewareNext]_vars

\* OneOfN / AnyOfN values of some type parameters
UnionSpecInit ==
  UnionInit /\ ServiceIdle /\ MakeInit /\ CtxInit /\ SpanInit /\ MwIdle
  /\ Base64Init /\ FormInit
  /\ IhvInit
  /\ MultipartInit

UnionNext ==
  \/ OneOfDeserialize \/ OneOfRsDeserialize \/ AnyOfDeserialize
  \/ UnionSerialize \/ UnionDisplay \/ OneOfFromStr \/ AnyOfFromStr

UnionSpec == UnionSpecInit /\ [][UnionNext]_vars

\* ByteArray values written as base64 text and texts read back
Base64SpecInit ==
  Base64Init /\ ServiceIdle /\ MakeInit /\ CtxInit /\ SpanInit /\ MwIdle /\ UnionIdle
  /\ FormInit
  /\ IhvInit
  /\ MultipartInit

Base64Next ==
  \/ ByteArraySerialize \/ ByteArrayToString \/ ForeignText
  \/ ByteArrayDeserialize \/ ByteArrayFromStr

Base64Spec == Base64SpecInit /\ [][Base64Next]_vars

\* values written in form style and read back
FormSpecInit ==
  FormInit /\ ServiceIdle /\ MakeInit /\ CtxInit /\ SpanInit /\ MwIdle /\ UnionIdle
  /\ Base64Init
  /\ IhvInit
  /\ MultipartInit

FormNext == StructToString \/ SeqToString \/ FromStr

FormSpec == FormSpecInit /\ [][FormNext]_vars

\* header values converted into IntoHeaderValue<T>
DecodeInit ==
  IhvInit /\ ServiceIdle /\ MakeInit /\ CtxInit /\ SpanInit /\ MwIdle /\ UnionIdle
  /\ Base64Init /\ FormInit
  /\ MultipartInit

DecodeNext == IntoHeaderValueFrom

DecodeSpec == DecodeInit /\ [][DecodeNext]_vars

\* multipart bodies read from a stream
MultipartSpecInit ==
  MultipartInit /\ IhvInit /\ ServiceIdle /\ MakeInit /\ CtxInit /\ SpanInit /\ MwIdle
  /\ UnionIdle /\ Base64Init /\ FormInit

MultipartNext == ReadMultipartBody \/ ReadTruncatedBody

MultipartSpec == MultipartSpecInit /\ [][MultipartNext]_vars

\* readiness of a CompositeService and of the CompositeMakeService it was
\* made by
PollInit == ServiceInit /\ PollTable /\ MakeBuilt /\ CtxInit /\ SpanInit
  /\ MwIdle /\ UnionIdle /\ Base64Init /\ FormInit
  /\ IhvInit
  /\ MultipartInit

PollNext == PollReady \/ MakePollReady

PollSpec == PollInit /\ [][PollNext]_vars

\* the OneOfN types the two files define
TypesInit ==
  UnionIdle /\ ServiceIdle /\ MakeInit /\ CtxInit /\ SpanInit /\ MwIdle
  /\ Base64Init /\ FormInit /\ IhvInit /\ MultipartInit

TypesNext == OneOfRsNamed \/ OneOfNamed \/ NamedDeserialize

TypesSpec == TypesInit /\ [][TypesNext]_vars

\* ------------------------------------------------------------------------
\* Claims about CompositeService
\* ------------------------------------------------------------------------
\* the entries whose base path is a prefix of the path of the last request
Matching == {i \in 1..Len(services) : StartsWith(UriPath(req.uri), services[i].path)}

FirstMatching == CHOOSE i \in Matching : \A j \in Matching : i <= j

\* the last operation was a call whose table is still the one it ran on
AfterCall == op \in {"call", "resolve"}

\* C1: call dispatches to the first entry, in registration order, whose base
\* path is a string prefix of the request's URI path (query excluded); no
\* other entry, however specific, is called.
C1_FirstMatchWins ==
  (AfterCall /\ Matching # {}) =>
    /\ Len(called) = 1
    /\ called[1].svc = services[FirstMatching].svc
    /\ fut.inner = services[FirstMatching].svc

\* the documented example: [("/a", H1), ("/ab", H2)] and a request for /ab/x
C1_Witness ==
  /\ op = "call"
  /\ services = << [path |-> <<"/", "a">>, svc |-> 1],
                   [path |-> <<"/", "a", "b">>, svc |-> 2] >>
  /\ req.uri = <<"/", "a", "b", "/", "x">>
  /\ called = <<[svc |-> 1, req |-> req]>>

\* C2: when no registered base path is a prefix of the request path (the
\* empty table included) call invokes no registered service and its future
\* is Ok(404 with the default body), never an Err.
C2_NoMatchIsNotFound ==
  (AfterCall /\ Matching = {}) =>
    /\ called = <<>>
    /\ fut.state = "ready"
    /\ fut.value.ok
    /\ fut.value.value = Response(404, "")

\* a non-empty table none of whose base paths is a prefix of /zzz
C2_Witness ==
  /\ op = "call"
  /\ Len(services) = MaxEntries
  /\ req.uri = <<"/", "z", "z", "z">>
  /\ Matching = {}
  /\ fut.value = Ok(Response(404, ""))

\* C5: when a base path matches, the result of call is exactly the result of
\* the matched service's call: the same Err or the same Ok response, and the
\* service is called once (no retry, no fallback).
C5_ResultIsInnerResult ==
  (op = "resolve") =>
    /\ Len(called) = 1
    /\ fut.state = "ready"
    /\ fut.value = innerResult

\* the matched service failed and the composite future carries its error
C5_Witness ==
  /\ op = "resolve"
  /\ Len(called) = 1
  /\ ~innerResult.ok
  /\ fut.value = Err("inner error")

\* C6 as stated: no operation on a built router changes its entries or
\* their order.
C6_TableNeverChanges == [][services' = services]_vars

\* C6 as amended: call, the resolution of its future and poll_ready leave
\* the entries and their order unchanged; only the Vec access handed out by
\* DerefMut changes them.
C6_CallAndPollKeepTable ==
  [][(op' \in {"call", "resolve", "poll_ready"}) => (services' = services)]_vars

\* a call that matched and a poll_ready that polled every entry have run on
\* a table that still holds all its entries
C6_Witness ==
  /\ op = "poll_ready"
  /\ Len(services) = MaxEntries
  /\ Len(polled) = MaxEntries
  /\ pollResult = Ready(Ok("unit"))

\* the registered services the last call invoked
CalledServices == {called[k].svc : k \in 1..Len(called)}

\* C29: when a base path matches, call invokes exactly one registered
\* service, exactly once, and passes it the request unchanged (the matched
\* base path is not stripped from the URI path); no other registered
\* service is called for that request.
C29_OneServiceGetsRequestUnchanged ==
  (AfterCall /\ Matching # {}) =>
    /\ Len(called) = 1
    /\ called[1].req = req
    /\ UriPath(called[1].req.uri) = UriPath(req.uri)
    /\ \E i \in Matching : CalledServices = {services[i].svc}
    /\ \A i \in 1..Len(services) :
         i # FirstMatching => services[i].svc \notin CalledServices

\* two entries match /ab/x: the first is called with the whole URI, base
\* path and body included, and the second is not called
C29_Witness ==
  /\ op = "call"
  /\ Len(services) = 2
  /\ services[1].path = <<"/", "a">>
  /\ services[2].path = <<"/", "a", "b">>
  /\ req = [uri |-> <<"/", "a", "b", "/", "x">>, body |-> "payload"]
  /\ called = <<[svc |-> services[1].svc, req |-> req]>>
  /\ services[2].svc \notin CalledServices

\* index of the first entry whose poll_ready was not Ready(Ok), 0 if none
FirstNotReady(outs) ==
  IF \E i \in 1..Len(outs) : outs[i] # "ready"
  THEN CHOOSE i \in 1..Len(outs) :
         /\ outs[i] # "ready"
         /\ \A j \in 1..(i - 1) : outs[j] = "ready"
  ELSE 0

\* what the claim says of one poll_ready: ids are the registered services in
\* registration order, outs what each returns when polled
PollsInOrderUntilNotReady(ids, outs, polledIds, result) ==
  LET stop == FirstNotReady(outs) IN
  /\ (result = Ready(Ok("unit"))) <=> (\A i \in 1..Len(ids) : outs[i] = "ready")
  /\ polledIds = SubSeq(ids, 1, IF stop = 0 THEN Len(ids) ELSE stop)
  /\ (stop # 0 /\ outs[stop] = "pending") => result = Pending
  /\ (stop # 0 /\ outs[stop] = "error") => result = Ready(Err(ids[stop]))

\* C26: poll_ready of CompositeService and of CompositeMakeService polls the
\* registered services in registration order and returns Ready(Ok) iff every
\* one of them returned Ready(Ok) in that poll (the empty table included); it
\* returns at the first service that is Pending or in error without polling
\* the later ones, so a Pending earlier service hides a later one's error.
C26_PollReadyStopsAtFirstNotReady ==
  /\ (op = "poll_ready") =>
       PollsInOrderUntilNotReady([i \in 1..Len(services) |-> services[i].svc],
                                 pollOuts, polled, pollResult)
  /\ (makeOp = "poll_ready") =>
       PollsInOrderUntilNotReady(
         [i \in 1..Len(makeServices) |-> makeServices[i].factory],
         makePollOuts, makePolled, makePollResult)

\* the first service was Pending and the second in error: poll_ready of
\* both composites polled the first only and returned Pending
C26_Witness ==
  /\ op = "poll_ready"
  /\ makeOp = "poll_ready"
  /\ pollOuts = <<"pending", "error">>
  /\ makePollOuts = <<"pending", "error">>
  /\ polled = <<services[1].svc>>
  /\ makePolled = <<makeServices[1].factory>>
  /\ pollResult = Pending
  /\ makePollResult = Pending

\* ------------------------------------------------------------------------
\* Claims about CompositeMakeService
\* ------------------------------------------------------------------------
\* C3: call invokes every registered factory exactly once with a clone of
\* the target and, when all succeed, yields a CompositeService with as many
\* entries whose i-th entry pairs the i-th registered base path with the
\* service the i-th factory produced.
C3_MakeBuildsSameOrderedPairs ==
  /\ (makeFut.state # "none") =>
       /\ Len(factoryCalls) = Len(makeServices)
       /\ \A i \in 1..Len(makeServices) :
            factoryCalls[i] = [factory |-> makeServices[i].factory, target |-> target]
  /\ (makeFut.state = "ready" /\ \A i \in 1..Len(joinAll) : joinAll[i].output.ok) =>
       /\ makeFut.value.ok
       /\ Len(makeFut.value.value) = Len(makeServices)
       /\ \A i \in 1..Len(makeServices) :
            makeFut.value.value[i] =
              [path |-> makeServices[i].path,
               svc |-> MadeService(makeServices[i].factory, target)]

\* a table of MaxEntries factories with different base paths, all succeeding
C3_Witness ==
  /\ makeFut.state = "ready"
  /\ makeFut.value.ok
  /\ Len(makeServices) = MaxEntries
  /\ Len(makeFut.value.value) = MaxEntries
  /\ makeServices[1].path # makeServices[2].path

\* C4: if any factory's future resolves to an error, call resolves to Err
\* (the error of the first failing factory in registration order) and no
\* CompositeService, full or partial, is returned.
C4_AnyFactoryErrorFailsMake ==
  (makeFut.state = "ready" /\ \E i \in 1..Len(joinAll) : ~joinAll[i].output.ok) =>
    /\ ~makeFut.value.ok
    /\ DOMAIN makeFut.value = {"ok", "error"}
    /\ \E i \in 1..Len(joinAll) :
         /\ makeFut.value = joinAll[i].output
         /\ \A j \in 1..(i - 1) : joinAll[j].output.ok

\* one factory succeeded, another failed, and the call resolved to the error
C4_Witness ==
  /\ makeFut.state = "ready"
  /\ \E i, j \in 1..Len(joinAll) : joinAll[i].output.ok /\ ~joinAll[j].output.ok
  /\ ~makeFut.value.ok

\* the factory futures that have resolved so far
Completed == {completion[k] : k \in 1..Len(completion)}

\* C25: whatever order the factory futures complete in, the future returned
\* by CompositeMakeService::call resolves only after all of them have
\* resolved, and the entries of the CompositeService it yields are in
\* registration order, not in completion order.
C25_ResolvesAfterAllInRegistrationOrder ==
  (makeFut.state = "ready") =>
    /\ Completed = 1..Len(makeServices)
    /\ \A i \in 1..Len(joinAll) : joinAll[i].done
    /\ makeFut.value.ok =>
         /\ Len(makeFut.value.value) = Len(makeServices)
         /\ \A k \in 1..Len(completion) :
              LET i == completion[k] IN
              makeFut.value.value[i].svc = joinAll[i].output.value.svc
         /\ \A i \in 1..Len(makeServices) :
              /\ makeFut.value.value[i].path = makeServices[i].path
              /\ makeFut.value.value[i].svc.factory = makeServices[i].factory

\* the factory registered second resolved first, and the first entry of the
\* CompositeService is still the first factory's service
C25_Witness ==
  /\ makeFut.state = "ready"
  /\ completion = <<2, 1>>
  /\ makeFut.value.ok
  /\ makeFut.value.value[1].svc.factory = 1
  /\ makeFut.value.value[2].svc.factory = 2
  /\ makeServices[1].path # makeServices[2].path

\* ------------------------------------------------------------------------
\* Claims about the context list
\* ------------------------------------------------------------------------
\* position of the outermost node of type T
Outermost(list, T) ==
  CHOOSE i \in 1..Len(list) :
    list[i].type = T /\ \A j \in 1..(i - 1) : list[j].type # T

\* C7 as stated: popping Ti and pushing the popped value back onto the
\* remainder yields a list equal to the original list.
C7_PopPushIsIdentity == (ctxOp = "pop_push") => (ctx = ctxBefore)

\* C7 as amended: popping Ti and pushing the value back moves the outermost
\* Ti node to the head and keeps every other node and their order; the list
\* has the same length, get returns the same value for every held type, and
\* the list equals the original exactly when that node was the head.
C7_PopPushMovesNodeToHead ==
  (ctxOp = "pop_push") =>
    LET k == Outermost(ctxBefore, ctxArg.type) IN
    /\ ctxArg = ctxBefore[k]
    /\ ctx = <<ctxBefore[k]>> \o SubSeq(ctxBefore, 1, k - 1)
                              \o SubSeq(ctxBefore, k + 1, Len(ctxBefore))
    /\ Len(ctx) = Len(ctxBefore)
    /\ \A U \in Types :
         Has(ctxBefore, U) => (Has(ctx, U) /\ Has_get(ctx, U) = Has_get(ctxBefore, U))
    /\ (ctx = ctxBefore) <=> (k = 1)

\* the popped type was not at the head, and the list came back reordered
C7_Witness ==
  /\ ctxOp = "pop_push"
  /\ Len(ctxBefore) = MaxCtxLen
  /\ ctxBefore[1].type # ctxArg.type
  /\ ctx # ctxBefore

\* C8: after push(v) of a value of type T, get::<T> returns v and pop::<T>
\* returns (v, the list before the push), also when the list already held a
\* T, whose node is shadowed and neither overwritten nor removed.
C8_PushShadows ==
  (ctxOp = "push") =>
    LET T == ctxArg.type IN
    /\ Has_get(ctx, T) = ctxArg.value
    /\ Pop_pop(ctx, T) = [value |-> ctxArg.value, rest |-> ctxBefore]
    /\ Len(ctx) = Len(ctxBefore) + 1
    /\ Has(ctxBefore, T) =>
         Has_get(Pop_pop(ctx, T).rest, T) = Has_get(ctxBefore, T)

\* a push of a type already held, with another value
C8_Witness ==
  /\ ctxOp = "push"
  /\ Has(ctxBefore, ctxArg.type)
  /\ Has_get(ctxBefore, ctxArg.type) # ctxArg.value
  /\ Has_get(ctx, ctxArg.type) = ctxArg.value

\* Empty::default().push(vn)...push(v2).push(v1)
RECURSIVE PushChain(_, _)
PushChain(list, values) ==
  IF values = <<>>
  THEN list
  ELSE LET n == Len(values) IN
       PushChain(Push_push(list, values[n].type, values[n].value),
                 SubSeq(values, 1, n - 1))

\* C9: make_context!(Ctx, Empty, v1, ..., vn) builds the value of
\* Empty::default().push(vn)...push(v1): the first listed value is the
\* head node and the last listed value the innermost.
C9_MakeContextIsPushChain ==
  (ctxOp = "make_context") =>
    /\ ctx = PushChain(EmptyContext, ctxListed)
    /\ Len(ctx) = Len(ctxListed)
    /\ \A i \in 1..Len(ctxListed) : ctx[i] = ctxListed[i]

\* MaxCtxLen values listed, the first and the last of different types
C9_Witness ==
  /\ ctxOp = "make_context"
  /\ Len(ctxListed) = MaxCtxLen
  /\ ctxListed[1].type # ctxListed[MaxCtxLen].type
  /\ ctx[1] = ctxListed[1]

\* C27: Pop<T> on a list whose outermost T node is not the head returns
\* that node's value and a remainder exactly one node shorter, in which
\* every other node keeps its value and its relative order.
C27_ForwardedPopRemovesOnlyThatNode ==
  (ctxOp = "pop" /\ Outermost(ctxBefore, ctxArg.type) > 1) =>
    LET k == Outermost(ctxBefore, ctxArg.type) IN
    /\ ctxArg.value = ctxBefore[k].value
    /\ Len(ctx) = Len(ctxBefore) - 1
    /\ \A i \in 1..(k - 1) : ctx[i] = ctxBefore[i]
    /\ \A i \in (k + 1)..Len(ctxBefore) : ctx[i - 1] = ctxBefore[i]

\* the popped node was the last of MaxCtxLen, below two nodes of different
\* types that are still the first two of the remainder
C27_Witness ==
  /\ ctxOp = "pop"
  /\ Len(ctxBefore) = MaxCtxLen
  /\ Outermost(ctxBefore, ctxArg.type) = MaxCtxLen
  /\ ctxBefore[1].type # ctxBefore[2].type
  /\ ctx = SubSeq(ctxBefore, 1, MaxCtxLen - 1)

\* C28: Has<T>::set(v) replaces the value of the outermost node of type T
\* and leaves the length of the list and the value of every other node
\* unchanged; get::<T> then returns v and get::<U> for every other held type
\* U returns what it returned before.
C28_SetReplacesOutermostOnly ==
  (ctxOp = "set") =>
    LET T == ctxArg.type
        k == Outermost(ctxBefore, T) IN
    /\ Len(ctx) = Len(ctxBefore)
    /\ ctx[k] = Node(T, ctxArg.value)
    /\ \A i \in 1..Len(ctxBefore) : i # k => ctx[i] = ctxBefore[i]
    /\ Has_get(ctx, T) = ctxArg.value
    /\ \A U \in Types \ {T} :
         Has(ctxBefore, U) => (Has(ctx, U) /\ Has_get(ctx, U) = Has_get(ctxBefore, U))

\* the list held T twice below a node of another type: the outer T node got
\* the new value and the inner one kept its different value
C28_Witness ==
  /\ ctxOp = "set"
  /\ Len(ctxBefore) = 3
  /\ ctxBefore[1].type # ctxArg.type
  /\ ctxBefore[2].type = ctxArg.type
  /\ ctxBefore[3].type = ctxArg.type
  /\ ctxBefore[2].value # ctxArg.value
  /\ ctx[2].value = ctxArg.value
  /\ ctx[3].value # ctxArg.value

\* ------------------------------------------------------------------------
\* Claims about the X-Span-ID helper
\* ------------------------------------------------------------------------
\* the request carries an X-Span-ID header
CarriesXSpanId == \E i \in 1..Len(hdrReq) : hdrReq[i].name = "x-span-id"

\* the value of the first X-Span-ID header of the request
FirstXSpanId ==
  hdrReq[CHOOSE i \in 1..Len(hdrReq) :
           /\ hdrReq[i].name = "x-span-id"
           /\ \A j \in 1..(i - 1) : hdrReq[j].name # "x-span-id"].value

IsText(value) == \A i \in 1..Len(value) : (value[i] >= 32 /\ value[i] < 127) \/ value[i] = 9

GeneratedStrings == {UuidToString(u) : u \in Uuids}

LastCallBy(by) == mwFut.by = by /\ mwOp # "new"

\* the first X-Span-ID header value of the request the adapter was called
\* with, if it has one
InboundXSpanId == HeaderGet(mwIn.head.headers, "x-span-id")

\* C11: for every inbound request AddContextService::call calls the wrapped
\* service exactly once, with the request head and body unchanged and a
\* context equal to a fresh default context onto which the request's tracing
\* id has been pushed; nothing of an earlier request's context is carried
\* over.
C11_AddContextForwardsFreshContext ==
  LastCallBy("add_context") =>
    /\ Len(mwSeen) = 1
    /\ mwSeen[1].head = mwIn.head
    /\ mwSeen[1].body.inner = mwIn.body
    /\ mwSeen[1].body.context = <<Node("XSpanIdString", mwSpan.spanId)>> \o defaultCtx
    /\ (InboundXSpanId.some /\ IsText(InboundXSpanId.value)) =>
         mwSpan.spanId = InboundXSpanId.value
    /\ (~InboundXSpanId.some \/ ~IsText(InboundXSpanId.value)) =>
         /\ mwSpan.spanId \in GeneratedStrings
         /\ mwSpan.spanId \notin {UuidToString(u) : u \in drawnBefore}

\* a request served after another whose id was generated, with a body and a
\* defaulted context that is not empty
C11_Witness ==
  /\ mwOp = "add_context"
  /\ drawnBefore # {}
  /\ mwSpan.generated
  /\ mwIn.body = "payload"
  /\ defaultCtx # EmptyContext
  /\ Len(mwSeen[1].body.context) = 2

\* C12 as stated: when the inbound request has no X-Span-ID header, the
\* generated tracing id is in the headers of the response the add-context
\* adapter hands back.
C12_GeneratedIdInResponseHeaders ==
  (LastCallBy("add_context") /\ mwFut.state = "ready" /\ mwFut.value.ok
   /\ ~InboundXSpanId.some) =>
    \E i \in 1..Len(mwFut.value.value.headers) :
      mwFut.value.value.headers[i] = [name |-> "x-span-id", value |-> mwSpan.spanId]

\* C12 as amended: the add-context adapter hands back the wrapped service's
\* own future, so its response (headers included) or error is exactly what
\* the wrapped service produced; the generated tracing id is put in the
\* context of the forwarded request only.
C12_ResponseIsWrappedServicesOwn ==
  (LastCallBy("add_context") /\ mwFut.state = "ready") =>
    /\ mwFut.value = mwInnerResult
    /\ mwInnerResult \in MwServiceResults
    /\ mwSeen[1].body.context[1].value = mwSpan.spanId

\* a request without X-Span-ID, answered by the wrapped service without one
C12_Witness ==
  /\ LastCallBy("add_context")
  /\ mwFut.state = "ready"
  /\ ~InboundXSpanId.some
  /\ mwSpan.generated
  /\ mwFut.value.ok
  /\ mwFut.value.value.headers = <<>>

\* C13: DropContextService forwards each request to the wrapped service
\* exactly once with the same head and the same inner body, without the
\* context, and returns the wrapped service's result unchanged; the context
\* is not reattached to the response.
C13_DropContextForwardsBareRequest ==
  LastCallBy("drop_context") =>
    /\ Len(mwSeen) = 1
    /\ DOMAIN mwSeen[1] = {"head", "body"}
    /\ mwSeen[1].head = mwIn.head
    /\ mwSeen[1].body = mwIn.body.inner
    /\ mwFut.state = "ready" =>
         (mwFut.value = mwInnerResult /\ mwInnerResult \in MwServiceResults)

\* a request with a body and a context of two members, forwarded and answered
C13_Witness ==
  /\ mwOp = "resolve"
  /\ LastCallBy("drop_context")
  /\ mwIn.body.inner = "payload"
  /\ Len(mwIn.body.context) = 2
  /\ mwFut.value.ok

\* C14: for every request, whatever its headers or credentials,
\* AllowAllAuthenticator pushes Some(Authorization {subject: the configured
\* subject, scopes: All, issuer: None}) onto the incoming context and
\* forwards the unchanged request with that context to the wrapped service;
\* an authenticator made by MakeAllowAllAuthenticator has the maker's subject.
C14_AllowAllGrantsConfiguredSubject ==
  /\ authSubject # NoSubject => authSubject = makerSubject
  /\ LastCallBy("allow_all") =>
       /\ Len(mwSeen) = 1
       /\ mwSeen[1].request = mwIn.request
       /\ mwSeen[1].context =
            <<[type |-> "Option<Authorization>",
               value |-> [some |-> TRUE,
                          value |-> [subject |-> makerSubject, scopes |-> "All",
                                     issuer |-> [some |-> FALSE]]]]>>
            \o mwIn.context

\* a request without credentials, whose context already holds an
\* Option<Authorization>, given to an authenticator made for "foo"
C14_Witness ==
  /\ mwOp = "allow_all"
  /\ makerSubject = "foo"
  /\ ~HeaderGet(mwIn.request.head.headers, "authorization").some
  /\ Has(mwIn.context, "Option<Authorization>")
  /\ Has_get(mwSeen[1].context, "Option<Authorization>").some

\* ------------------------------------------------------------------------
\* Claims about OneOfN / AnyOfN
\* ------------------------------------------------------------------------
\* the positions of the variants whose deserializer accepts the input
Accepting == {i \in 1..Len(uTypes) : Accepts(uTypes[i], uIn)}

\* C15: deserializing a OneOfN tries every variant against the captured
\* value and succeeds iff exactly one variant accepts it, returning that
\* variant whatever its position; with two or more it fails with 'data
\* matched multiple within oneOf', with none with 'data did not match any
\* within oneOf'.
C15_OneOfNeedsExactlyOneMatch ==
  (uOp \in {"OneOf::deserialize", "one_of.rs OneOf::deserialize"}) =>
    /\ Cardinality(Accepting) = 1 =>
         \E i \in Accepting : uOut = [ok |-> TRUE, value |-> [variant |-> i, inner |-> uIn]]
    /\ Cardinality(Accepting) >= 2 =>
         uOut = [ok |-> FALSE, error |-> "data matched multiple within oneOf"]
    /\ Accepting = {} =>
         uOut = [ok |-> FALSE, error |-> "data did not match any within oneOf"]

\* C16: deserializing an AnyOfN returns the first variant, in declared
\* order, whose deserializer accepts the captured value, with no ambiguity
\* check, and fails with 'data did not match any within anyOf' only when no
\* variant accepts it.
C16_AnyOfTakesFirstMatch ==
  (uOp = "AnyOf::deserialize") =>
    /\ Accepting # {} =>
         /\ uOut.ok
         /\ uOut.value.variant \in Accepting
         /\ \A j \in Accepting : uOut.value.variant <= j
         /\ uOut.value.inner = uIn
    /\ Accepting = {} =>
         uOut = [ok |-> FALSE, error |-> "data did not match any within anyOf"]

\* 5000000000 given to an AnyOf whose first variants are u32 and u64, both
\* u64 and a later variant accepting it or not
C16_Witness ==
  /\ uOp = "AnyOf::deserialize"
  /\ Len(uTypes) >= 2
  /\ uTypes[1] = "u32"
  /\ uTypes[2] = "u64"
  /\ uIn.digits = <<5, 0, 0, 0, 0, 0, 0, 0, 0, 0>>
  /\ uOut.ok
  /\ uOut.value.variant = 2

\* the text of a value as serde_json writes it and as to_string shows it
PlainText(v, quote) ==
  CASE v.kind = "number" ->
         [i \in 1..Len(v.digits) |->
            <<"0", "1", "2", "3", "4", "5", "6", "7", "8", "9">>[v.digits[i] + 1]]
    [] v.kind = "string" -> quote \o v.s \o quote
    [] v.kind = "bool" ->
         IF v.b THEN <<"t", "r", "u", "e">> ELSE <<"f", "a", "l", "s", "e">>

\* C17: serializing (and displaying) a OneOfN or AnyOfN value produces
\* exactly the output of serializing (displaying) the inner value of the
\* variant held, for every variant position; no tag or wrapper is added.
C17_SerializeIsInnerSerialize ==
  /\ (uOp = "serialize") => uOut = PlainText(uIn.inner, <<"\"">>)
  /\ (uOp = "fmt") => uOut = PlainText(uIn.inner, <<>>)

\* a string held in the last of MaxVariants variants, serialized
C17_Witness ==
  /\ uOp = "serialize"
  /\ uIn.variant = MaxVariants
  /\ uIn.inner.kind = "string"
  /\ uOut = <<"\"", "h", "i", "\"">>

\* the positions of the variants whose from_str parses the input
Parsing == {i \in 1..Len(uTypes) : InnerFromStr(uTypes[i], uIn.s).ok}

\* C22: FromStr applies the selection rule of deserialization:
\* OneOfN::from_str succeeds iff exactly one variant parses the string, with
\* that variant, and fails both when none and when more than one does;
\* AnyOfN::from_str returns the first variant in declared order that parses
\* the string and fails only when none does.
C22_FromStrSelectsLikeDeserialize ==
  /\ (uOp = "OneOf::from_str") =>
       /\ uOut.ok <=> Cardinality(Parsing) = 1
       /\ uOut.ok =>
            /\ uOut.value.variant \in Parsing
            /\ uOut.value.inner = InnerFromStr(uTypes[uOut.value.variant], uIn.s).value
       /\ (Parsing = {}) => uOut = Err("data did not match any within oneOf")
       /\ (Cardinality(Parsing) > 1) => uOut = Err("data matched multiple within oneOf")
  /\ (uOp = "AnyOf::from_str") =>
       /\ uOut.ok <=> Parsing # {}
       /\ uOut.ok =>
            /\ uOut.value.variant \in Parsing
            /\ \A j \in Parsing : uOut.value.variant <= j
            /\ uOut.value.inner = InnerFromStr(uTypes[uOut.value.variant], uIn.s).value
       /\ (Parsing = {}) => uOut = Err("data did not match any within anyOf")

\* OneOf2::<u8, String>::from_str("123"): both variants parse the text
C22_Witness ==
  /\ uOp = "OneOf::from_str"
  /\ uTypes = <<"u8", "String">>
  /\ uIn.s = <<"1", "2", "3">>
  /\ uOut = Err("data matched multiple within oneOf")

\* the N of the OneOfN last named
NamedN == CHOOSE n \in 1..MaxOneOf : DigitsOf(n) = uIn.digits

\* C24: for every N from 1 to 16 a type OneOfN is defined and it has exactly
\* N variants, all of which are candidates during deserialization.
C24_OneOfNHasNVariants ==
  (uOp \in {"one_of.rs OneOfN", "OneOfN"}) =>
    /\ uOut.ok
    /\ Len(uOut.value.variants) = NamedN
    /\ \A i, j \in 1..Len(uOut.value.variants) :
         i # j => uOut.value.variants[i] # uOut.value.variants[j]
    /\ uOut.value.candidates = uOut.value.variants

\* ------------------------------------------------------------------------
\* Claims about ByteArray
\* ------------------------------------------------------------------------
\* C18: for every byte sequence b, decoding the base64 text produced by
\* encoding ByteArray(b) gives back exactly b (serialize/deserialize and
\* to_string/from_str); a text that is not valid base64 is rejected with an
\* error (message 'invalid base64' on deserialization) and yields no
\* ByteArray.
C18_Base64RoundTrips ==
  (bOp \in {"deserialize", "from_str"}) =>
    /\ bBytes # NoBytes => bOut = [ok |-> TRUE, value |-> bBytes]
    /\ (\A b \in ByteArrays : encode(b) # bText) =>
         /\ ~bOut.ok
         /\ bOp = "deserialize" => bOut = [ok |-> FALSE, error |-> "invalid base64"]

\* MaxBytes bytes, the last 255, serialized and deserialized
C18_Witness ==
  /\ bOp = "deserialize"
  /\ bBytes # NoBytes
  /\ Len(bBytes) = MaxBytes
  /\ bBytes[MaxBytes] = 255
  /\ bOut.ok
  /\ bOut.value = bBytes

\* ------------------------------------------------------------------------
\* Claims about the form-style codec
\* ------------------------------------------------------------------------
\* the name and the value of each field, in declaration order
RECURSIVE FieldTokens(_)
FieldTokens(fields) ==
  IF fields = <<>> THEN <<>>
  ELSE <<url_encode(Head(fields).name),
         serialize_scalar(Head(fields).kind, Head(fields).value)>>
       \o FieldTokens(Tail(fields))

\* the tokens with one comma between each two neighbours
RECURSIVE JoinedByCommas(_)
JoinedByCommas(tokens) ==
  IF tokens = <<>> THEN <<>>
  ELSE IF Len(tokens) = 1 THEN tokens[1]
  ELSE tokens[1] \o <<",">> \o JoinedByCommas(Tail(tokens))

\* the sum of the lengths of the tokens
RECURSIVE TokensLength(_)
TokensLength(tokens) ==
  IF tokens = <<>> THEN 0 ELSE Len(Head(tokens)) + TokensLength(Tail(tokens))

\* struct Object {R: 100, G: 200, B: 150} of test_to_string_object
TestObject ==
  Struct(<<Field(<<"R">>, "i32", Scalar(100, FALSE, <<>>)),
           Field(<<"G">>, "i32", Scalar(200, FALSE, <<>>)),
           Field(<<"B">>, "i32", Scalar(150, FALSE, <<>>))>>)

TestObjectText ==
  <<"R", ",", "1", "0", "0", ",", "G", ",", "2", "0", "0", ",",
    "B", ",", "1", "5", "0">>

\* C19: form-style to_string of a struct writes, for each field in
\* declaration order, the field name then the field value, all joined by
\* single commas, with no comma before the first name or after the last
\* value and no other separator; {R:100, G:200, B:150} is written as
\* exactly R,100,G,200,B,150.
C19_StructIsNamesAndValuesJoinedByCommas ==
  (fOp = "to_string" /\ fValue.shape = "struct") =>
    LET tokens == FieldTokens(fValue.fields) IN
    /\ fText = JoinedByCommas(tokens)
    /\ Len(fText) = TokensLength(tokens) + Len(tokens) - 1
    /\ SubSeq(fText, 1, Len(tokens[1])) = tokens[1]
    /\ SubSeq(fText, Len(fText) - Len(tokens[Len(tokens)]) + 1, Len(fText))
         = tokens[Len(tokens)]
    /\ fValue = TestObject => fText = TestObjectText

\* the struct of the test has been written as R,100,G,200,B,150
C19_Witness ==
  /\ fOp = "to_string"
  /\ fValue = TestObject
  /\ fText = TestObjectText

\* C20: form-style encoding round-trips: for every flat struct of scalars
\* and every sequence of strings, of any length, the empty sequence
\* included, and with strings that hold commas or other reserved characters,
\* from_str(to_string(v)) equals v.
C20_FormRoundTrips ==
  fOp = "from_str" => (fOut.ok /\ fOut.value = fValue)

\* ------------------------------------------------------------------------
\* Claims about IntoHeaderValue
\* ------------------------------------------------------------------------
\* C21: header decoding never panics: converting a HeaderValue that is not
\* valid text, or whose text does not parse as the target type, into
\* IntoHeaderValue<T> gives the caller an error value.
C21_HeaderDecodingNeverPanics ==
  (ihvType # "none") => ~ihvOut.panicked

\* ------------------------------------------------------------------------
\* Claims about the multipart reader
\* ------------------------------------------------------------------------
\* the part's Content-Disposition is Attachment or has a Filename parameter
FileDisposition(part) ==
  \E i \in 1..Len(part.headers) : part.headers[i] \in {"a", "f"}

\* the node read for a part that is no multipart
LeafAsClaimed(node, part) ==
  /\ node.node \in {"File", "Part"}
  /\ node.node = "File" <=> (mpAlways \/ FileDisposition(part))
  /\ node.headers = part.headers
  /\ node.body = part.body
  /\ node.node = "File" => node.size = Some(Len(part.body))

C30_OneNodePerPartInOrder ==
  (mpOp = "read") =>
    /\ mpOut.ok
    /\ Len(mpOut.value) = Len(mpIn.parts)
    /\ \A i \in 1..Len(mpIn.parts) :
         LET node == mpOut.value[i]
             part == mpIn.parts[i]
         IN /\ node.headers = part.headers
            /\ node.node = "Multipart" <=> IsNested(part)
            /\ IsNested(part) =>
                 /\ Len(node.nodes) = Len(part.parts)
                 /\ \A k \in 1..Len(part.parts) :
                      /\ node.nodes[k].headers = part.parts[k].headers
                      /\ node.nodes[k].body = part.parts[k].body

====
